---- MODULE Spec2Model ----
(***************************************************************************)
(* A model of RAJA's CUDA reduction core                                   *)
(* (include/RAJA/policy/cuda/reduce.hpp): the block reducer, the tree and  *)
(* atomic grid reducers, the located (minloc/maxloc) grid reducer, the     *)
(* pinned tally and the host side of the reduction handle.                 *)
(*                                                                         *)
(* One kernel launch is modelled at the granularity of the accesses to     *)
(* memory shared between blocks (device_mem, device_count, the pinned      *)
(* slot): each such access of a block's thread 0 is one step, so that all  *)
(* interleavings of the blocks are explored.  What happens inside a block  *)
(* between two barriers is deterministic and is computed by operators      *)
(* (block_reduce and friends) that follow the code lane by lane.           *)
(***************************************************************************)
EXTENDS Integers, Sequences, FiniteSets, TLC

\* ------------------------------------------------------------------ bounds

\* largest grid (gridDim.x * gridDim.y * gridDim.z) explored
MaxBlocks == 2
\* largest block (blockDim.x * blockDim.y * blockDim.z) explored
MaxThreads == 5
\* combine is called at most this many times in a launch; a thread that never
\* called it still holds the identity its copy constructor gave it
MaxContrib == 1
\* the value type T is modelled as the integers T_MIN..T_MAX
T_MAX == 7
\* log2 of the warp size of the modelled device (32 lanes on real hardware)
LogWarpSize == 2
\* reduce(v, i) of a located reduction is called at most this many times in a
\* launch
MaxLocContrib == 2
\* the indices passed to a located reduction are 0..MaxIdx
MaxIdx == 1
\* the host uses the streams 1..MaxStreams
MaxStreams == 2
\* the host launches at most this many kernels against a root
MaxLaunches == 2
\* the host threads that call into one tally are 1..MaxHostThreads
MaxHostThreads == 2
\* a root is copied, directly or through its copies, at most this many times
MaxCopies == 3
\* block_reduce is called on its own by blocks of fewer than this many warps
MaxPartialWarps == 3
\* the block whose threads are followed one by one has at most this many warps
MaxBlockWarps == 2
\* a thread calls reduce() on its copies at most this many times
MaxReduceCalls == 2

T_MIN == -T_MAX - 1
WARP_SIZE == 2 ^ LogWarpSize
\* MAX_WARPS is MAX_BLOCK_SIZE / WARP_SIZE = 1024 / 32 in RAJA's policy.hpp
MAX_WARPS == WARP_SIZE

\* the values passed to combine
Vals == {1, 2}
\* what a shuffle from a lane that does not exist, or a read of memory that
\* was never written, may return
JunkVals == {T_MIN, T_MAX}

\* ---------------------------------------------------------------- reducers

Reducers == {"sum", "min", "max"}

\* Reducer::identity
identity(R) ==
  CASE R = "sum" -> 0
    [] R = "min" -> T_MAX
    [] R = "max" -> T_MIN

\* Reducer{}(acc, v): the new value of acc
Reducer(R, acc, v) ==
  CASE R = "sum" -> acc + v
    [] R = "min" -> IF v < acc THEN v ELSE acc
    [] R = "max" -> IF v > acc THEN v ELSE acc

\* reduce::cuda::atomic<Reducer>{}(val, v): atomicAdd / atomicMin / atomicMax
atomic(R, acc, v) ==
  CASE R = "sum" -> acc + v
    [] R = "min" -> IF v < acc THEN v ELSE acc
    [] R = "max" -> IF v > acc THEN v ELSE acc

\* an int-typed T is all-zero bits exactly when it is 0
bitwize_zero(v) == v = 0

\* a faulty variant: an increment that never wraps
atomicInc_nowrap(old, wrap_around) == old + 1

\* ::atomicInc(addr, wrap): the value stored
atomicInc(old, wrap_around) == IF old >= wrap_around THEN 0 ELSE old + 1

\* lane ^ i for a power of two i
Xor(lane, i) == IF (lane \div i) % 2 = 0 THEN lane + i ELSE lane - i

\* ------------------------------------------------------------ block_reduce

\* shfl_xor_sync(temp, i) as seen by thread t: the value of lane (lane ^ i)
\* of t's warp; used only where every lane of the warp exists
shfl_xor_sync(temp, t, i) == temp[Xor(t, i)]

\* shfl_sync(temp, srcLane) as seen by thread t: the value of lane
\* srcLane % WARP_SIZE of t's warp, undefined when that thread does not exist
shfl_sync(temp, t, srcLane, nThreads, undef) ==
  LET src == (t \div WARP_SIZE) * WARP_SIZE + (srcLane % WARP_SIZE)
  IN  IF src < nThreads THEN temp[src] ELSE undef

\* one iteration of "reduce each warp" when numThreads % WARP_SIZE == 0
warp_step_full(R, temp, i) ==
  [t \in DOMAIN temp |-> Reducer(R, temp[t], shfl_xor_sync(temp, t, i))]

\* a faulty variant: the shuffled value is combined whether or not its source
\* thread exists
warp_step_unguarded(R, temp, i, nThreads, undef) ==
  [t \in DOMAIN temp |->
     Reducer(R, temp[t], shfl_sync(temp, t, Xor(t, i), nThreads, undef))]

\* one iteration of "reduce each warp" when numThreads % WARP_SIZE != 0
warp_step_guarded(R, temp, i, nThreads, undef) ==
  [t \in DOMAIN temp |->
     LET srcLane == Xor(t, i)
         rhs == shfl_sync(temp, t, srcLane, nThreads, undef)
     IN  IF srcLane < nThreads THEN Reducer(R, temp[t], rhs) ELSE temp[t]]

RECURSIVE warp_loop_full(_, _, _)
warp_loop_full(R, temp, i) ==
  IF i < WARP_SIZE THEN warp_loop_full(R, warp_step_full(R, temp, i), 2 * i)
  ELSE temp

RECURSIVE warp_loop_guarded(_, _, _, _, _)
warp_loop_guarded(R, temp, i, nThreads, undef) ==
  IF i < WARP_SIZE
  THEN warp_loop_guarded(R, warp_step_guarded(R, temp, i, nThreads, undef),
                         2 * i, nThreads, undef)
  ELSE temp

\* a faulty variant: warp 0 loads sd[] also where no warp published a value
per_warp_stage_stale(R, temp, nThreads, undef) ==
  LET sd == [w \in 0..(MAX_WARPS - 1) |->
               IF w * WARP_SIZE < nThreads THEN temp[w * WARP_SIZE]
               ELSE undef]
      warp0 == [l \in 0..(WARP_SIZE - 1) |-> sd[l]]
      red0 == warp_loop_full(R, warp0, 1)
  IN  [t \in DOMAIN temp |-> IF t < WARP_SIZE THEN red0[t] ELSE temp[t]]

\* "reduce per warp values": lane 0 of each warp publishes to sd[] (entries
\* of warps that do not exist keep whatever shared memory held), warp 0 loads
\* sd[] or identity and reduces again; the other warps keep their value
per_warp_stage(R, temp, nThreads, undef) ==
  LET sd == [w \in 0..(MAX_WARPS - 1) |->
               IF w * WARP_SIZE < nThreads THEN temp[w * WARP_SIZE]
               ELSE undef]
      warp0 == [l \in 0..(WARP_SIZE - 1) |->
                  IF l * WARP_SIZE < nThreads THEN sd[l] ELSE identity(R)]
      red0 == warp_loop_full(R, warp0, 1)
  IN  [t \in DOMAIN temp |-> IF t < WARP_SIZE THEN red0[t] ELSE temp[t]]

\* block_reduce<Reducer>(val): the value returned in every thread of a block
\* whose thread t passed val[t]
block_reduce(R, val, nThreads, undef) ==
  LET warped == IF nThreads % WARP_SIZE = 0
                THEN warp_loop_full(R, val, 1)
                ELSE warp_loop_guarded(R, val, 1, nThreads, undef)
  IN  IF nThreads > WARP_SIZE THEN per_warp_stage(R, warped, nThreads, undef)
      ELSE warped

\* ------------------------------------------------------------------- state

VARIABLES
  variant,        \* which grid reducer the launch runs: "tree", "atomic", "loc"
  reducer,        \* the Reducer template argument
  numBlocks,      \* gridDim.x * gridDim.y * gridDim.z of the launch
  numThreads,     \* blockDim.x * blockDim.y * blockDim.z of the launch
  junk,           \* what reads of undefined lanes / unwritten memory return
  value,          \* value[b][t]: val.value of thread t's copy in block b
  index,          \* index[b][t]: val.index of that copy (located reducers)
  contrib,        \* located reducers: the <<value, index>> pairs passed to combine
  seed,           \* located reducers: what the root was constructed with
  pc,             \* pc[b]: where thread 0 of block b stands
  device_mem,     \* the device scratch array
  deviceLoc_mem,  \* the device scratch array of indices (located reducers)
  device_count,   \* the device counter
  old_count,      \* old_count[b]: what block b's atomicInc returned
  lastBlock,      \* lastBlock[b] in thread 0 of block b
  val_ptr,        \* the pinned slot tally_or_val_ptr.val_ptr[0]
  writers,        \* the threads <<b, t>> that wrote the pinned slot, in order
  mem_log,        \* atomic variant: the writes to *device_mem, in order
  root_value,     \* val.value of the root handle on the host
  root_index,     \* val.index of the root handle (located reducers)
  host_pc,        \* where the host thread stands
  stream_list,    \* PinnedTally::stream_list: the stream nodes, head first
  pinned,         \* pinned[n]: Node::value of pinned node n
  launches,       \* the kernels launched: stream, slot, finished or not, folds
  s_it,           \* deviceToHost's StreamIterator s
  n_it,           \* operator T's StreamNodeIterator n
  synced,         \* the streams synchronized by this read or destruction, in order
  folded,         \* the pinned nodes folded by this read or destruction, in order
  read_log,       \* what the reads since the last launch did and returned
  expected,       \* the combine of the seed and of every value given so far
  freed,          \* the pinned nodes given back to the pinned pool
  pool_log,       \* the tally's malloc and free calls, in order
  m_mutex,        \* PinnedTally::m_mutex: its holder, 0 if free, -1 if not compiled
  callers,        \* callers[h]: host thread h inside or outside new_value
  handles,        \* the handle objects alive or destroyed on the host
  scratch,        \* the device allocations made by setupForDevice
  wpc,            \* wpc[w]: where warp w of the block looked into stands
  thread_temp,    \* thread_temp[t]: the local temp of thread t of that block
  lastFlag,       \* lastFlag[t]: the local lastBlock of thread t of that block
  live,           \* the threads of that block that have not returned
  shared_sd,      \* block_reduce's __shared__ T sd[MAX_WARPS]
  sd_log          \* the accesses to sd[], in order

\* what a kernel never changes: its geometry and what its threads combined
launchVars == <<variant, reducer, numBlocks, numThreads, junk, value, index,
                contrib, seed>>

\* the state of the host
tallyVars == <<stream_list, pinned, launches, s_it, n_it, synced, folded,
               read_log, expected, freed, pool_log>>
\* host threads calling into the tally
threadVars == <<m_mutex, callers>>

\* the copies of a handle and what they allocated
copyVars == <<handles, scratch>>

\* the threads of one block, warp by warp
warpVars == <<wpc, thread_temp, lastFlag, live, shared_sd, sd_log>>

hostVars == <<root_value, root_index, host_pc, tallyVars, threadVars, copyVars>>

\* no block is looked into thread by thread
NoWarps ==
  /\ wpc = <<>> /\ thread_temp = <<>> /\ lastFlag = <<>> /\ live = {}
  /\ shared_sd = <<>> /\ sd_log = <<>>

\* the tally of a root no read or launch has touched
NoTally ==
  /\ stream_list = <<>> /\ pinned = <<>> /\ launches = <<>>
  /\ s_it = 0 /\ n_it = <<0, 0>> /\ synced = <<>> /\ folded = <<>>
  /\ read_log = <<>> /\ expected = 0 /\ freed = {}
  /\ pool_log = <<>>
  /\ m_mutex = 0 /\ callers = <<>> /\ handles = <<>> /\ scratch = <<>>
  /\ NoWarps

vars == <<launchVars, hostVars, warpVars, pc, device_mem, deviceLoc_mem,
          device_count,
          old_count, lastBlock, val_ptr, writers, mem_log>>

Blocks == 0..(numBlocks - 1)
Threads == 0..(numThreads - 1)

\* the values val.value can hold in the threads of a launch in which combine
\* was called k times in all: every copy starts at identity (copy constructor)
RECURSIVE Locals(_, _, _, _)
Locals(R, nB, nT, k) ==
  IF k = 0
  THEN {[b \in 0..(nB - 1) |-> [t \in 0..(nT - 1) |-> identity(R)]]}
  ELSE LET prev == Locals(R, nB, nT, k - 1)
       IN  prev \cup {[f EXCEPT ![b][t] = Reducer(R, f[b][t], v)] :
                        f \in prev, b \in 0..(nB - 1), t \in 0..(nT - 1),
                        v \in Vals}

\* ----------------------------------------------------- tree: grid_reduce

\* a faulty variant: the wrap value is taken one too large
wrap_around_late(nB) == nB

\* a faulty variant: the wrap value is taken one too small
wrap_around_early(nB) == nB - 2

\* unsigned int wrap_around = numBlocks - 1
wrap_around(nB) == nB - 1

\* "last block accumulates values from device_mem": temp of thread t after
\* for (i = threadId; i < numBlocks; i += numThreads) Reducer{}(temp, device_mem[i])
\* a faulty variant: every thread reads only device_mem[threadId], without the stride loop
accumulate_once(R, mem, nB, nT, i, temp) ==
  IF i < nB THEN Reducer(R, temp, mem[i]) ELSE temp

RECURSIVE accumulate_from(_, _, _, _, _, _)
accumulate_from(R, mem, nB, nT, i, temp) ==
  IF i < nB THEN accumulate_from(R, mem, nB, nT, i + nT, Reducer(R, temp, mem[i]))
  ELSE temp

accumulate(R, mem, nB, nT) ==
  [t \in 0..(nT - 1) |-> accumulate_from(R, mem, nB, nT, t, identity(R))]

\* T temp = block_reduce<Reducer>(val) in thread 0 of block b
block_aggregate(b) == block_reduce(reducer, value[b], numThreads, junk)[0]

\* numBlocks == 1: thread 0 takes the block aggregate, grid_reduce returns
\* true in it and destroy() stores it in the pinned slot
grid_reduce_single(b) ==
  /\ variant = "tree" /\ pc[b] = "start" /\ numBlocks = 1
  /\ lastBlock' = [lastBlock EXCEPT ![b] = TRUE]
  /\ val_ptr' = block_aggregate(b)
  /\ writers' = Append(writers, <<b, 0>>)
  /\ pc' = [pc EXCEPT ![b] = "done"]
  /\ UNCHANGED <<launchVars, warpVars, hostVars, deviceLoc_mem,
                 device_mem, device_count, old_count, mem_log>>

\* "one thread per block writes to device_mem"
grid_reduce_store(b) ==
  /\ variant = "tree" /\ pc[b] = "start" /\ numBlocks # 1
  /\ device_mem' = [device_mem EXCEPT ![b] = block_aggregate(b)]
  /\ pc' = [pc EXCEPT ![b] = "stored"]
  /\ UNCHANGED <<launchVars, warpVars, hostVars, deviceLoc_mem,
                 device_count, old_count, lastBlock, val_ptr, writers, mem_log>>

\* __threadfence(); old_count = ::atomicInc(device_count, wrap_around);
\* lastBlock = (old_count == wrap_around)
grid_reduce_count(b) ==
  /\ variant = "tree" /\ pc[b] = "stored"
  /\ device_count' = atomicInc(device_count, wrap_around(numBlocks))
  /\ old_count' = [old_count EXCEPT ![b] = device_count]
  /\ lastBlock' = [lastBlock EXCEPT ![b] = (device_count = wrap_around(numBlocks))]
  /\ pc' = [pc EXCEPT ![b] = "counted"]
  /\ UNCHANGED <<launchVars, warpVars, hostVars, deviceLoc_mem,
                 device_mem, val_ptr, writers, mem_log>>

\* lastBlock = __syncthreads_or(lastBlock); the last block accumulates
\* device_mem, reduces the temporaries and its thread 0 returns true, upon
\* which destroy() stores the value in the pinned slot
grid_reduce_last(b) ==
  /\ variant = "tree" /\ pc[b] = "counted"
  /\ IF lastBlock[b]
     THEN LET temp == accumulate(reducer, device_mem, numBlocks, numThreads)
          IN  /\ val_ptr' = block_reduce(reducer, temp, numThreads, junk)[0]
              /\ writers' = Append(writers, <<b, 0>>)
     ELSE UNCHANGED <<val_ptr, writers>>
  /\ pc' = [pc EXCEPT ![b] = "done"]
  /\ UNCHANGED <<launchVars, warpVars, hostVars, deviceLoc_mem,
                 device_mem, device_count, old_count, lastBlock, mem_log>>

\* a launch of the tree variant: device_count comes zeroed from its pool,
\* device_mem and the pinned slot hold whatever their pools held
InitTree ==
  /\ variant = "tree"
  /\ reducer \in Reducers
  /\ numBlocks \in 1..MaxBlocks
  /\ numThreads \in 1..MaxThreads
  /\ junk \in JunkVals
  /\ value \in Locals(reducer, numBlocks, numThreads, MaxContrib)
  /\ pc = [b \in Blocks |-> "start"]
  /\ device_mem = [i \in Blocks |-> junk]
  /\ device_count = 0
  /\ old_count = [b \in Blocks |-> 0]
  /\ lastBlock = [b \in Blocks |-> FALSE]
  /\ val_ptr = junk
  /\ writers = <<>>
  /\ mem_log = <<>>
  /\ index = <<>> /\ contrib = {} /\ seed = <<>> /\ deviceLoc_mem = <<>>
  /\ root_value = 0 /\ root_index = 0 /\ host_pc = "kernel"
  /\ NoTally

NextTree ==
  \E b \in Blocks :
    \/ grid_reduce_single(b)
    \/ grid_reduce_store(b)
    \/ grid_reduce_count(b)
    \/ grid_reduce_last(b)

SpecTree == InitTree /\ [][NextTree]_vars

AllDone == \A b \in Blocks : pc[b] = "done"

\* the reducer's combine of the val.value of every thread of the launch, each
\* taken once, block after block and thread after thread
RECURSIVE SerialFrom(_, _, _)
SerialFrom(R, p, acc) ==
  IF p < numBlocks * numThreads
  THEN SerialFrom(R, p + 1,
                  Reducer(R, acc, value[p \div numThreads][p % numThreads]))
  ELSE acc

SerialCombine == SerialFrom(reducer, 0, identity(reducer))

\* ---------------------------------------------------------- tree: claims

\* C1: in the tree variant grid_reduce returns true in exactly one thread of
\* the grid, thread 0 of the block whose atomicInc returned numBlocks - 1 (or
\* of the only block), so the pinned slot is never written twice and has been
\* written exactly once when every block has finished.
C1_TreeOneWriter ==
  variant = "tree" =>
    /\ Len(writers) <= 1
    /\ AllDone => Len(writers) = 1
    /\ \A k \in 1..Len(writers) :
         /\ writers[k][2] = 0
         /\ numBlocks = 1 \/ old_count[writers[k][1]] = numBlocks - 1

\* a finished launch of the largest grid whose writer is not the block with
\* the highest id
C1_Witness ==
  /\ variant = "tree" /\ AllDone /\ numBlocks = MaxBlocks
  /\ Len(writers) = 1 /\ writers[1][1] # numBlocks - 1

\* C2: the value thread 0 of the last block writes to the pinned slot is the
\* reducer's combine of the val.value of all numBlocks * numThreads threads,
\* each counted once.
C2_TreeAggregate ==
  (variant = "tree" /\ Len(writers) > 0) => val_ptr = SerialCombine

\* a finished launch of the largest grid with more than one warp per block,
\* in which a thread outside warp 0 of a block that is not the writer
\* contributed
C2_Witness ==
  /\ variant = "tree" /\ AllDone
  /\ numBlocks = MaxBlocks /\ numThreads > WARP_SIZE
  /\ \E b \in Blocks, t \in Threads :
       /\ b # writers[1][1]
       /\ t >= WARP_SIZE
       /\ value[b][t] # identity(reducer)
  /\ val_ptr # identity(reducer)
  /\ val_ptr = SerialCombine

\* ------------------------------------------- atomic: grid_reduce_atomic

\* a faulty variant: the wrap value of the tree variant's neighbour, one too small
wrap_around_atomic_early(nB) == nB

\* unsigned int wrap_around = numBlocks + 1
wrap_around_atomic(nB) == nB + 1

\* a faulty variant: the spin ends as soon as the counter has left zero
initialized_early(count) == ~(count < 1)

\* the exit test of while (device_count[0] < 2u) ;
initialized(count) == ~(count < 2)

\* a faulty variant: the initializer runs whatever the number of blocks
setup_needed_any_grid(R, nB) == ~bitwize_zero(identity(R))

\* the test if ( !bitwize_zero(Reducer::identity) && numBlocks != 1) of
\* setup_grid_reduce_atomic
setup_needed(R, nB) == ~bitwize_zero(identity(R)) /\ nB # 1

\* setup_grid_reduce_atomic with a bitwise-zero identity or a single block:
\* nothing is touched
setup_grid_reduce_atomic_skip(b) ==
  /\ variant = "atomic" /\ pc[b] = "setup"
  /\ ~setup_needed(reducer, numBlocks)
  /\ pc' = [pc EXCEPT ![b] = "start"]
  /\ UNCHANGED <<launchVars, warpVars, hostVars, deviceLoc_mem,
                 device_mem, device_count, old_count, lastBlock, val_ptr,
                 writers, mem_log>>

\* old_val = ::atomicCAS(device_count, 0u, 1u)
setup_grid_reduce_atomic_cas(b) ==
  /\ variant = "atomic" /\ pc[b] = "setup"
  /\ setup_needed(reducer, numBlocks)
  /\ device_count' = IF device_count = 0 THEN 1 ELSE device_count
  /\ pc' = [pc EXCEPT ![b] = IF device_count = 0 THEN "init" ELSE "start"]
  /\ UNCHANGED <<launchVars, warpVars, hostVars, deviceLoc_mem,
                 device_mem, old_count, lastBlock, val_ptr, writers, mem_log>>

\* *device_mem = Reducer::identity
setup_grid_reduce_atomic_init(b) ==
  /\ variant = "atomic" /\ pc[b] = "init"
  /\ device_mem' = [device_mem EXCEPT ![0] = identity(reducer)]
  /\ mem_log' = Append(mem_log, <<"identity", b>>)
  /\ pc' = [pc EXCEPT ![b] = "init_add"]
  /\ UNCHANGED <<launchVars, warpVars, hostVars, deviceLoc_mem,
                 device_count, old_count, lastBlock, val_ptr, writers>>

\* a faulty variant: the winner of the CAS never publishes the initialization
setup_grid_reduce_atomic_noadd(b) ==
  /\ variant = "atomic" /\ pc[b] = "init_add"
  /\ pc' = [pc EXCEPT ![b] = "start"]
  /\ UNCHANGED <<launchVars, warpVars, hostVars, deviceLoc_mem,
                 device_mem, device_count, old_count, lastBlock, val_ptr,
                 writers, mem_log>>

\* __threadfence(); ::atomicAdd(device_count, 1u)
setup_grid_reduce_atomic_add(b) ==
  /\ variant = "atomic" /\ pc[b] = "init_add"
  /\ device_count' = device_count + 1
  /\ pc' = [pc EXCEPT ![b] = "start"]
  /\ UNCHANGED <<launchVars, warpVars, hostVars, deviceLoc_mem,
                 device_mem, old_count, lastBlock, val_ptr, writers, mem_log>>

\* numBlocks == 1: thread 0 takes the block aggregate and returns true, upon
\* which destroy() stores it in the pinned slot
grid_reduce_atomic_single(b) ==
  /\ variant = "atomic" /\ pc[b] = "start" /\ numBlocks = 1
  /\ lastBlock' = [lastBlock EXCEPT ![b] = TRUE]
  /\ val_ptr' = block_aggregate(b)
  /\ writers' = Append(writers, <<b, 0>>)
  /\ pc' = [pc EXCEPT ![b] = "done"]
  /\ UNCHANGED <<launchVars, warpVars, hostVars, deviceLoc_mem,
                 device_mem, device_count, old_count, mem_log>>

\* "thread waits for device_mem to be initialized": with an identity that is
\* not bitwise zero thread 0 leaves the loop once it reads device_count >= 2
grid_reduce_atomic_wait(b) ==
  /\ variant = "atomic" /\ pc[b] = "start" /\ numBlocks # 1
  /\ ~bitwize_zero(identity(reducer)) => initialized(device_count)
  /\ pc' = [pc EXCEPT ![b] = "combine"]
  /\ UNCHANGED <<launchVars, warpVars, hostVars, deviceLoc_mem,
                 device_mem, device_count, old_count, lastBlock, val_ptr,
                 writers, mem_log>>

\* RAJA::reduce::cuda::atomic<Reducer>{}(*device_mem, temp)
grid_reduce_atomic_combine(b) ==
  /\ variant = "atomic" /\ pc[b] = "combine"
  /\ device_mem' = [device_mem EXCEPT
                      ![0] = atomic(reducer, device_mem[0], block_aggregate(b))]
  /\ mem_log' = Append(mem_log, <<"combine", b>>)
  /\ pc' = [pc EXCEPT ![b] = "inc"]
  /\ UNCHANGED <<launchVars, warpVars, hostVars, deviceLoc_mem,
                 device_count, old_count, lastBlock, val_ptr, writers>>

\* __threadfence(); old_count = ::atomicInc(device_count, wrap_around);
\* lastBlock = (old_count == wrap_around)
grid_reduce_atomic_inc(b) ==
  /\ variant = "atomic" /\ pc[b] = "inc"
  /\ device_count' = atomicInc(device_count, wrap_around_atomic(numBlocks))
  /\ old_count' = [old_count EXCEPT ![b] = device_count]
  /\ lastBlock' = [lastBlock EXCEPT
                     ![b] = (device_count = wrap_around_atomic(numBlocks))]
  /\ pc' = [pc EXCEPT
              ![b] = IF device_count = wrap_around_atomic(numBlocks)
                     THEN "read" ELSE "done"]
  /\ UNCHANGED <<launchVars, warpVars, hostVars, deviceLoc_mem,
                 device_mem, val_ptr, writers, mem_log>>

\* "last block gets value from device_mem": val = *device_mem, the function
\* returns true and destroy() stores val in the pinned slot
grid_reduce_atomic_read(b) ==
  /\ variant = "atomic" /\ pc[b] = "read"
  /\ val_ptr' = device_mem[0]
  /\ writers' = Append(writers, <<b, 0>>)
  /\ pc' = [pc EXCEPT ![b] = "done"]
  /\ UNCHANGED <<launchVars, warpVars, hostVars, deviceLoc_mem,
                 device_mem, device_count, old_count, lastBlock, mem_log>>

\* a launch of the atomic variant: the accumulator and the counter come
\* zeroed from the zero-initialized pool, the pinned slot holds anything
InitAtomic ==
  /\ variant = "atomic"
  /\ reducer \in Reducers
  /\ numBlocks \in 1..MaxBlocks
  /\ numThreads \in 1..MaxThreads
  /\ junk \in JunkVals
  /\ value \in Locals(reducer, numBlocks, numThreads, MaxContrib)
  /\ pc = [b \in Blocks |-> "setup"]
  /\ device_mem = [i \in {0} |-> 0]
  /\ device_count = 0
  /\ old_count = [b \in Blocks |-> 0]
  /\ lastBlock = [b \in Blocks |-> FALSE]
  /\ val_ptr = junk
  /\ writers = <<>>
  /\ mem_log = <<>>
  /\ index = <<>> /\ contrib = {} /\ seed = <<>> /\ deviceLoc_mem = <<>>
  /\ root_value = 0 /\ root_index = 0 /\ host_pc = "kernel"
  /\ NoTally

AtomicStep(b) ==
  /\ b \in Blocks
  /\ \/ setup_grid_reduce_atomic_skip(b)
     \/ setup_grid_reduce_atomic_cas(b)
     \/ setup_grid_reduce_atomic_init(b)
     \/ setup_grid_reduce_atomic_add(b)
     \/ grid_reduce_atomic_single(b)
     \/ grid_reduce_atomic_wait(b)
     \/ grid_reduce_atomic_combine(b)
     \/ grid_reduce_atomic_inc(b)
     \/ grid_reduce_atomic_read(b)

NextAtomic == \E b \in 0..(MaxBlocks - 1) : AtomicStep(b)

SpecAtomic == InitAtomic /\ [][NextAtomic]_vars

\* every resident block's thread 0 keeps being scheduled
FairSpecAtomic ==
  SpecAtomic /\ \A b \in 0..(MaxBlocks - 1) : WF_vars(AtomicStep(b))

\* -------------------------------------------------------- atomic: claims

\* the number of atomic combines block c has applied to *device_mem
CombinesBy(c) ==
  Cardinality({k \in 1..Len(mem_log) : mem_log[k] = <<"combine", c>>})

NonZeroIdentity == ~bitwize_zero(identity(reducer))

\* C3: in the atomic variant, for every reducer, exactly one block's thread 0
\* is declared last (it saw numBlocks + 1 come back from atomicInc, or is the
\* only block) and writes the pinned slot: never two writes, and exactly one
\* once every block has finished.
C3_AtomicOneWriter ==
  variant = "atomic" =>
    /\ Len(writers) <= 1
    /\ AllDone => Len(writers) = 1
    /\ \A k \in 1..Len(writers) :
         /\ writers[k][2] = 0
         /\ numBlocks = 1 \/ old_count[writers[k][1]] = numBlocks + 1

\* C4: when a block's thread 0 has been declared last and reads *device_mem,
\* every block has applied its atomic combine exactly once, and the value it
\* writes to the pinned slot is the combine of all of them.
C4_AtomicReadAfterCombines ==
  variant = "atomic" =>
    /\ \A b \in Blocks :
         pc[b] = "read" => \A c \in Blocks : CombinesBy(c) = 1
    /\ Len(writers) > 0 => val_ptr = SerialCombine

\* the last block, which is not the block with the highest id, is about to
\* read an accumulator that holds a contributed value
C4_Witness ==
  /\ variant = "atomic" /\ numBlocks = MaxBlocks
  /\ pc[0] = "read"
  /\ device_mem[0] # identity(reducer)

\* C5: with an identity that is not bitwise zero and more than one block, the
\* first write to *device_mem is the identity write and it is the only one:
\* no block combines before it and no combine is overwritten by it.
C5_IdentityWrittenFirst ==
  (variant = "atomic" /\ NonZeroIdentity /\ numBlocks > 1) =>
    \A k \in 1..Len(mem_log) : (mem_log[k][1] = "identity") <=> (k = 1)

\* every block has combined, and the first to combine was not the block that
\* wrote the identity
C5_Witness ==
  /\ variant = "atomic" /\ NonZeroIdentity /\ numBlocks = MaxBlocks
  /\ Len(mem_log) = numBlocks + 1
  /\ mem_log[1][2] # mem_log[2][2]

\* C6: with an identity that is not bitwise zero and more than one block,
\* under weak fairness of every block's thread 0, a thread that waits for
\* device_count >= 2 gets past the wait and every block finishes.
C6_AtomicTerminates ==
  /\ \A b \in 0..(MaxBlocks - 1) :
       (variant = "atomic" /\ NonZeroIdentity /\ numBlocks > 1
          /\ b \in Blocks /\ pc[b] = "start")
       ~> (b \in Blocks /\ pc[b] = "combine")
  /\ (variant = "atomic" /\ NonZeroIdentity /\ numBlocks > 1) ~> AllDone

\* a block waits while the block that won the CAS has not yet published
C6_Witness ==
  /\ variant = "atomic" /\ NonZeroIdentity /\ numBlocks > 1
  /\ device_count = 1
  /\ \E b \in Blocks : pc[b] = "start"

\* ------------------------------------------- located values: reducers

LocReducers == {"minloc", "maxloc"}

\* Reducer::identity of minloc / maxloc
identityLoc(R) ==
  CASE R = "minloc" -> T_MAX
    [] R = "maxloc" -> T_MIN

\* Reducer{}(val, loc, v, l) of minloc / maxloc: the new (val, loc); when v
\* equals val the lower index is kept
ReducerLoc(R, val, loc, v, l) ==
  LET better == IF R = "minloc" THEN v < val ELSE v > val
  IN  IF better THEN [val |-> v, idx |-> l]
      ELSE IF v = val /\ l < loc THEN [val |-> val, idx |-> l]
      ELSE [val |-> val, idx |-> loc]

\* ----------------------------------------- block_reduce on LocType values

\* one iteration of "reduce each warp" when numThreads % WARP_SIZE == 0
warp_step_fullLoc(R, temp, i) ==
  [t \in DOMAIN temp |->
     LET rhs_val == shfl_xor_sync(temp, t, i).val
         rhs_idx == shfl_xor_sync(temp, t, i).idx
     IN  ReducerLoc(R, temp[t].val, temp[t].idx, rhs_val, rhs_idx)]

\* one iteration of "reduce each warp" when numThreads % WARP_SIZE != 0
warp_step_guardedLoc(R, temp, i, nThreads, undef) ==
  [t \in DOMAIN temp |->
     LET srcLane == Xor(t, i)
         und == [val |-> undef, idx |-> undef]
         rhs_val == shfl_sync(temp, t, srcLane, nThreads, und).val
         rhs_idx == shfl_sync(temp, t, srcLane, nThreads, und).idx
     IN  IF srcLane < nThreads
         THEN ReducerLoc(R, temp[t].val, temp[t].idx, rhs_val, rhs_idx)
         ELSE temp[t]]

RECURSIVE warp_loop_fullLoc(_, _, _)
warp_loop_fullLoc(R, temp, i) ==
  IF i < WARP_SIZE
  THEN warp_loop_fullLoc(R, warp_step_fullLoc(R, temp, i), 2 * i)
  ELSE temp

RECURSIVE warp_loop_guardedLoc(_, _, _, _, _)
warp_loop_guardedLoc(R, temp, i, nThreads, undef) ==
  IF i < WARP_SIZE
  THEN warp_loop_guardedLoc(R, warp_step_guardedLoc(R, temp, i, nThreads, undef),
                            2 * i, nThreads, undef)
  ELSE temp

\* "reduce per warp values" with sd_val[] and sd_idx[]; warp 0 loads them, or
\* identity and IndexType{-1} where the warp does not exist
per_warp_stageLoc(R, temp, nThreads, undef) ==
  LET sd == [w \in 0..(MAX_WARPS - 1) |->
               IF w * WARP_SIZE < nThreads THEN temp[w * WARP_SIZE]
               ELSE [val |-> undef, idx |-> undef]]
      warp0 == [l \in 0..(WARP_SIZE - 1) |->
                  IF l * WARP_SIZE < nThreads THEN sd[l]
                  ELSE [val |-> identityLoc(R), idx |-> -1]]
      red0 == warp_loop_fullLoc(R, warp0, 1)
  IN  [t \in DOMAIN temp |-> IF t < WARP_SIZE THEN red0[t] ELSE temp[t]]

\* block_reduce<Reducer>(LocType val): the value returned in every thread
block_reduceLoc(R, val, nThreads, undef) ==
  LET warped == IF nThreads % WARP_SIZE = 0
                THEN warp_loop_fullLoc(R, val, 1)
                ELSE warp_loop_guardedLoc(R, val, 1, nThreads, undef)
  IN  IF nThreads > WARP_SIZE
      THEN per_warp_stageLoc(R, warped, nThreads, undef)
      ELSE warped

\* ------------------------------------------- located: grid_reduceLoc

\* unsigned int wrap_around = numBlocks - 1
wrap_aroundLoc(nB) == nB - 1

\* temp of one thread after the loop
\* for (i = threadId; i < numBlocks; i += numThreads)
\*   Reducer{}(temp.val, temp.idx, device_mem[i], deviceLoc_mem[i])
RECURSIVE accumulate_fromLoc(_, _, _, _, _, _, _)
accumulate_fromLoc(R, mem, loc_mem, nB, nT, i, temp) ==
  IF i < nB
  THEN accumulate_fromLoc(R, mem, loc_mem, nB, nT, i + nT,
                          ReducerLoc(R, temp.val, temp.idx, mem[i], loc_mem[i]))
  ELSE temp

\* temp.val = Reducer::identity; temp.idx = IndexType(-1); then the loop
accumulateLoc(R, mem, loc_mem, nB, nT) ==
  [t \in 0..(nT - 1) |->
     accumulate_fromLoc(R, mem, loc_mem, nB, nT, t,
                        [val |-> identityLoc(R), idx |-> -1])]

\* LocType temp = block_reduce<Reducer>(val) in thread 0 of block b, val
\* being {value, index} of the thread's copy
block_aggregateLoc(b) ==
  block_reduceLoc(reducer,
                  [t \in Threads |-> [val |-> value[b][t], idx |-> index[b][t]]],
                  numThreads, junk)[0]

\* numBlocks == 1: thread 0 takes the block aggregate, grid_reduceLoc returns
\* true in it and destroy() stores it in the pinned slot
grid_reduceLoc_single(b) ==
  /\ variant = "loc" /\ host_pc = "kernel" /\ pc[b] = "start" /\ numBlocks = 1
  /\ lastBlock' = [lastBlock EXCEPT ![b] = TRUE]
  /\ val_ptr' = block_aggregateLoc(b)
  /\ writers' = Append(writers, <<b, 0>>)
  /\ pc' = [pc EXCEPT ![b] = "done"]
  /\ UNCHANGED <<launchVars, warpVars, hostVars, device_mem, deviceLoc_mem,
                 device_count, old_count, mem_log>>

\* "one thread per block writes to device_mem"
grid_reduceLoc_store(b) ==
  /\ variant = "loc" /\ host_pc = "kernel" /\ pc[b] = "start" /\ numBlocks # 1
  /\ device_mem' = [device_mem EXCEPT ![b] = block_aggregateLoc(b).val]
  /\ deviceLoc_mem' = [deviceLoc_mem EXCEPT ![b] = block_aggregateLoc(b).idx]
  /\ pc' = [pc EXCEPT ![b] = "stored"]
  /\ UNCHANGED <<launchVars, warpVars, hostVars, device_count, old_count,
                 lastBlock,
                 val_ptr, writers, mem_log>>

\* __threadfence(); old_count = ::atomicInc(device_count, wrap_around);
\* lastBlock = (old_count == wrap_around)
grid_reduceLoc_count(b) ==
  /\ variant = "loc" /\ host_pc = "kernel" /\ pc[b] = "stored"
  /\ device_count' = atomicInc(device_count, wrap_aroundLoc(numBlocks))
  /\ old_count' = [old_count EXCEPT ![b] = device_count]
  /\ lastBlock' = [lastBlock EXCEPT
                     ![b] = (device_count = wrap_aroundLoc(numBlocks))]
  /\ pc' = [pc EXCEPT ![b] = "counted"]
  /\ UNCHANGED <<launchVars, warpVars, hostVars, device_mem, deviceLoc_mem,
                 val_ptr,
                 writers, mem_log>>

\* lastBlock = __syncthreads_or(lastBlock); the last block accumulates
\* device_mem and deviceLoc_mem, reduces the temporaries and its thread 0
\* returns true, upon which destroy() stores the pair in the pinned slot
grid_reduceLoc_last(b) ==
  /\ variant = "loc" /\ host_pc = "kernel" /\ pc[b] = "counted"
  /\ IF lastBlock[b]
     THEN LET temp == accumulateLoc(reducer, device_mem, deviceLoc_mem,
                                    numBlocks, numThreads)
          IN  /\ val_ptr' = block_reduceLoc(reducer, temp, numThreads, junk)[0]
              /\ writers' = Append(writers, <<b, 0>>)
     ELSE UNCHANGED <<val_ptr, writers>>
  /\ pc' = [pc EXCEPT ![b] = "done"]
  /\ UNCHANGED <<launchVars, warpVars, hostVars, device_mem, deviceLoc_mem,
                 device_count, old_count, lastBlock, mem_log>>

\* ReduceLoc::operator T / getLoc on the root after one launch: the tally
\* holds the launch's slot, deviceToHost synchronizes its stream (which
\* returns once the kernel has finished), the slot is folded into val.value
\* and val.index, and cleanup frees the tally's list
ReduceLoc_get ==
  /\ variant = "loc" /\ host_pc = "kernel" /\ AllDone
  /\ LET r == ReducerLoc(reducer, root_value, root_index,
                         val_ptr.val, val_ptr.idx)
     IN  root_value' = r.val /\ root_index' = r.idx
  /\ host_pc' = "read"
  /\ UNCHANGED <<launchVars, warpVars, tallyVars, threadVars, copyVars, pc,
                 device_mem,
                 deviceLoc_mem, device_count, old_count, lastBlock, val_ptr,
                 writers, mem_log>>

\* the values a located reduction is fed: two ordinary values and the
\* reducer's own identity (the largest, resp. smallest, value of T)
LocVals(R) == Vals \cup {identityLoc(R)}

\* the indices contributed
LocIdx == 0..MaxIdx

\* the (val.value, val.index) of the threads of a launch in which reduce was
\* called k times in all, with the set of (value, index) pairs contributed:
\* every copy starts at Reducer::identity and index -1 (copy constructor)
RECURSIVE LocalsLoc(_, _, _, _)
LocalsLoc(R, nB, nT, k) ==
  IF k = 0
  THEN {[loc |-> [b \in 0..(nB - 1) |->
                    [t \in 0..(nT - 1) |-> [val |-> identityLoc(R), idx |-> -1]]],
         given |-> {}]}
  ELSE LET prev == LocalsLoc(R, nB, nT, k - 1)
       IN  prev \cup
           {[loc |-> [L.loc EXCEPT ![b][t] =
                        ReducerLoc(R, L.loc[b][t].val, L.loc[b][t].idx, v, i)],
             given |-> L.given \cup {<<v, i>>}] :
              L \in prev, b \in 0..(nB - 1), t \in 0..(nT - 1),
              v \in LocVals(R), i \in LocIdx}

\* the (init_val, init_loc) a root is constructed with
SeedsLoc(R) == [val : {identityLoc(R), 2}, idx : {-1, MaxIdx}]

\* a root ReduceLoc(init_val, init_loc) and one launch against it:
\* device_count comes zeroed from its pool, device_mem, deviceLoc_mem and the
\* pinned slot hold whatever their pools held
InitLoc ==
  /\ variant = "loc"
  /\ reducer \in LocReducers
  /\ numBlocks \in 1..MaxBlocks
  /\ numThreads \in 1..MaxThreads
  /\ junk \in JunkVals
  /\ seed \in SeedsLoc(reducer)
  /\ \E L \in LocalsLoc(reducer, numBlocks, numThreads, MaxLocContrib) :
       /\ value = [b \in Blocks |-> [t \in Threads |-> L.loc[b][t].val]]
       /\ index = [b \in Blocks |-> [t \in Threads |-> L.loc[b][t].idx]]
       /\ contrib = L.given
  /\ pc = [b \in Blocks |-> "start"]
  /\ device_mem = [i \in Blocks |-> junk]
  /\ deviceLoc_mem = [i \in Blocks |-> junk]
  /\ device_count = 0
  /\ old_count = [b \in Blocks |-> 0]
  /\ lastBlock = [b \in Blocks |-> FALSE]
  /\ val_ptr = [val |-> junk, idx |-> junk]
  /\ writers = <<>>
  /\ mem_log = <<>>
  /\ root_value = seed.val /\ root_index = seed.idx /\ host_pc = "kernel"
  /\ NoTally

NextLoc ==
  \/ \E b \in Blocks :
       \/ grid_reduceLoc_single(b)
       \/ grid_reduceLoc_store(b)
       \/ grid_reduceLoc_count(b)
       \/ grid_reduceLoc_last(b)
  \/ ReduceLoc_get

SpecLoc == InitLoc /\ [][NextLoc]_vars

\* ------------------------------------------------------- located: claims

\* the true minimum (minloc) or maximum (maxloc) of the seed and of every
\* contributed value
TrueExtreme ==
  LET all == {seed.val} \cup {c[1] : c \in contrib}
  IN  CHOOSE m \in all :
        \A x \in all : IF reducer = "minloc" THEN m <= x ELSE m >= x

\* the indices contributed together with the extreme value
ExtremeGiven == {c[2] : c \in contrib \cap ({TrueExtreme} \X LocIdx)}

\* those indices, with the seed's index when the seed is the extreme
ExtremeIdx ==
  ExtremeGiven \cup (IF seed.val = TrueExtreme THEN {seed.idx} ELSE {})

\* C7: minloc/maxloc: the value read is the true minimum (maximum) of the
\* seed and all contributed values, and the index read was contributed with
\* that extreme value (or is the seed's index when the seed is the extreme).
\* Violated: temporaries seeded with (identity, -1) tie with an extreme that
\* equals the identity and the lower index -1 is kept.
C7_LocExtreme ==
  (variant = "loc" /\ host_pc = "read") =>
     /\ root_value = TrueExtreme
     /\ root_index \in ExtremeIdx

\* C8: minloc/maxloc tie-break: when the extreme value was contributed with
\* several different indices, getLoc() returns the smallest index the extreme
\* value came with, whatever the geometry and the order of the blocks.
\* Violated: the sentinel -1 of the identity-seeded temporaries is lower than
\* every contributed index and wins the tie when the extreme is the identity.
C8_LocSmallestIndex ==
  (variant = "loc" /\ host_pc = "read" /\ Cardinality(ExtremeGiven) > 1) =>
     /\ root_index \in ExtremeIdx
     /\ \A i \in ExtremeIdx : root_index <= i

\* --------------------------------------------------- host: the pinned tally

\* the streams kernels are launched on
Streams == 1..MaxStreams

\* all that belongs to a kernel in flight: the host never touches it
kernelVars == <<pc, device_mem, deviceLoc_mem, device_count, old_count,
                lastBlock, val_ptr, writers, mem_log>>

\* the pinned nodes reachable from stream_list
TallyNodes(list) ==
  UNION {{list[k].node_list[i] : i \in 1..Len(list[k].node_list)} :
         k \in 1..Len(list)}

\* a faulty variant: the new node takes the place of the stream's node_list
\* (n->next is not set to the old head)
new_value_replace(list, stream, n) ==
  IF \E k \in 1..Len(list) : list[k].stream = stream
  THEN [k \in 1..Len(list) |->
          IF list[k].stream = stream
          THEN [list[k] EXCEPT !.node_list = <<n>>]
          ELSE list[k]]
  ELSE <<[stream |-> stream, node_list |-> <<n>>]>> \o list

\* PinnedTally::new_value(stream): stream_list once node n, fresh from the
\* pinned pool, is put at the head of the stream's node_list; a stream seen
\* for the first time gets a stream node at the head of stream_list
new_value(list, stream, n) ==
  IF \E k \in 1..Len(list) : list[k].stream = stream
  THEN [k \in 1..Len(list) |->
          IF list[k].stream = stream
          THEN [list[k] EXCEPT !.node_list = <<n>> \o @]
          ELSE list[k]]
  ELSE <<[stream |-> stream, node_list |-> <<n>>]>> \o list

\* a faulty variant: the nodes are left in the tally
free_list_keep(list) == list

\* a faulty variant: only the stream node at the head is freed
free_list_head(list) == IF list = <<>> THEN list ELSE Tail(list)

\* PinnedTally::free_list(): stream_list after every node of every stream node
\* and every stream node were freed
free_list(list) == <<>>

\* a call of malloc or free made by the tally: a Node of the pinned pool,
\* known by its number, or a StreamNode of the heap, known by its stream (the
\* tally holds one stream node per stream at a time)
pool_call(op, what, id) == [op |-> op, what |-> what, id |-> id]

\* PinnedTally::new_value(stream): its calls of malloc, in order
new_value_mallocs(list, stream, n) ==
  IF \E k \in 1..Len(list) : list[k].stream = stream
  THEN <<pool_call("malloc", "Node", n)>>
  ELSE <<pool_call("malloc", "StreamNode", stream),
         pool_call("malloc", "Node", n)>>

\* a faulty variant: free(s) is missing
RECURSIVE free_list_frees_nodes(_)
free_list_frees_nodes(list) ==
  IF list = <<>> THEN <<>>
  ELSE [i \in 1..Len(list[1].node_list) |->
          pool_call("free", "Node", list[1].node_list[i])]
       \o free_list_frees_nodes(Tail(list))

\* PinnedTally::free_list(): its calls of free, in order: while (stream_list),
\* every node of the head's node_list from its head on, then the head itself
RECURSIVE free_list_frees(_)
free_list_frees(list) ==
  IF list = <<>> THEN <<>>
  ELSE [i \in 1..Len(list[1].node_list) |->
          pool_call("free", "Node", list[1].node_list[i])]
       \o <<pool_call("free", "StreamNode", list[1].stream)>>
       \o free_list_frees(Tail(list))

\* PinnedTally::streamBegin(): a StreamIterator is the position of its stream
\* node in stream_list, Len(list) + 1 standing for nullptr
streamBegin(list) == 1

\* a faulty variant: only the stream at the head of the list is visited
streamEnd_first(list) == IF list = <<>> THEN 1 ELSE 2

\* PinnedTally::streamEnd()
streamEnd(list) == Len(list) + 1

\* PinnedTally::end(): a StreamNodeIterator is <<m_sn, m_n>>, the position of
\* the stream node and of the node in its node_list, 0 standing for nullptr
end == <<0, 0>>

\* PinnedTally::begin()
begin(list) == IF list # <<>> THEN <<1, 1>> ELSE <<0, 0>>

\* a faulty variant: the iterator ends with the node list of its stream node
StreamNodeIterator_next_same(list, it) ==
  IF it[2] < Len(list[it[1]].node_list) THEN <<it[1], it[2] + 1>>
  ELSE <<0, 0>>

\* StreamNodeIterator::operator++
StreamNodeIterator_next(list, it) ==
  IF it[2] < Len(list[it[1]].node_list) THEN <<it[1], it[2] + 1>>
  ELSE IF it[1] < Len(list) THEN <<it[1] + 1, 1>>
  ELSE <<0, 0>>

\* StreamNodeIterator::operator==: only m_n is compared
StreamNodeIterator_eq(it, rhs) == it[2] = rhs[2]

\* the node StreamNodeIterator::operator* gives the value of
StreamNodeIterator_node(list, it) == list[it[1]].node_list[it[2]]

\* what a kernel of the tree variant leaves in its pinned slot: grid_reduce
\* over the blocks' block_reduce, by the last block's accumulation
grid_reduce(R, val, nB, nT, undef) ==
  IF nB = 1
  THEN block_reduce(R, val[0], nT, undef)[0]
  ELSE LET mem == [b \in 0..(nB - 1) |-> block_reduce(R, val[b], nT, undef)[0]]
       IN  block_reduce(R, accumulate(R, mem, nB, nT), nT, undef)[0]

\* the reducer's combine of acc with val.value of every thread of a launch
RECURSIVE SerialOver(_, _, _, _, _, _)
SerialOver(R, val, nB, nT, p, acc) ==
  IF p < nB * nT
  THEN SerialOver(R, val, nB, nT, p + 1, Reducer(R, acc, val[p \div nT][p % nT]))
  ELSE acc

\* what the kernels of a launch can do, for every reducer R and every content
\* undef of undefined memory: the value the grid leaves in the pinned slot
\* with the serial combine of the values the threads hold, over all grids and
\* all values of the threads' copies
KernelOutcomes ==
  [R \in Reducers |-> [undef \in JunkVals |->
     UNION {UNION {{[result |-> grid_reduce(R, val, nB, nT, undef),
                     serial |-> SerialOver(R, val, nB, nT, 0, identity(R))] :
                       val \in Locals(R, nB, nT, MaxContrib)} :
                   nT \in 1..MaxThreads} :
            nB \in 1..MaxBlocks}]]

\* the reads since the last launch, the last two of them
Logged(log, r) == IF Len(log) = 2 THEN <<log[2], r>> ELSE Append(log, r)

\* whether synchronize(stream) returns: every kernel of the stream finished
synchronize(stream) ==
  \A l \in 1..Len(launches) : launches[l].stream = stream => launches[l].done

\* ------------------------------------------------ host: the Reduce handle

\* a forall over the root on stream s, with any grid and any values: the copy
\* constructor of the launcher runs setupForDevice, which takes a slot from
\* the tally with new_value; the kernel is queued on the stream with the
\* launcher's copy, whose threads combine their values; the launcher's
\* destructor runs teardownForDevice
Launch(s) ==
  /\ variant = "host" /\ host_pc = "idle" /\ Len(launches) < MaxLaunches
  /\ \E k \in KernelOutcomes[reducer][junk] :
       LET n == Len(pinned) + 1
       IN  /\ stream_list' = new_value(stream_list, s, n)
           /\ pool_log' = pool_log \o new_value_mallocs(stream_list, s, n)
           /\ pinned' = Append(pinned, junk)
           /\ launches' = Append(launches, [stream |-> s, node |-> n,
                                            done |-> FALSE, result |-> k.result,
                                            folds |-> 0])
           /\ expected' = Reducer(reducer, expected, k.serial)
  /\ read_log' = <<>>
  /\ UNCHANGED <<launchVars, warpVars, kernelVars, threadVars, copyVars,
                 root_value,
                 root_index, host_pc,
                 s_it, n_it, synced, folded, freed>>

\* a faulty variant: the grid's value is combined into the root's value, no
\* pinned slot in between
Kernel_into_root(l) ==
  /\ variant = "host" /\ l \in 1..Len(launches) /\ ~launches[l].done
  /\ \A k \in 1..(l - 1) :
        launches[k].stream = launches[l].stream => launches[k].done
  /\ root_value' = Reducer(reducer, root_value, launches[l].result)
  /\ launches' = [launches EXCEPT ![l].done = TRUE]
  /\ UNCHANGED <<launchVars, warpVars, kernelVars, threadVars, copyVars,
                 pinned, root_index, host_pc,
                 stream_list, s_it, n_it, synced, folded, read_log, expected,
                 freed, pool_log>>

\* kernel l runs to its end once the kernels queued before it on its stream
\* have: Reduce_Data::destroy() on the device stores the grid's value in the
\* pinned slot
Kernel(l) ==
  /\ variant = "host" /\ l \in 1..Len(launches) /\ ~launches[l].done
  /\ \A k \in 1..(l - 1) :
        launches[k].stream = launches[l].stream => launches[k].done
  /\ pinned' = [pinned EXCEPT ![launches[l].node] = launches[l].result]
  /\ launches' = [launches EXCEPT ![l].done = TRUE]
  /\ UNCHANGED <<launchVars, warpVars, kernelVars, threadVars, copyVars,
                 root_value,
                 root_index, host_pc,
                 stream_list, s_it, n_it, synced, folded, read_log, expected,
                 freed, pool_log>>

\* Reduce::operator T up to the call of deviceToHost: with an empty tally
\* val.value is returned at once
operator_T_begin ==
  /\ variant = "host" /\ host_pc = "idle"
  /\ synced' = <<>> /\ folded' = <<>>
  /\ n_it' = begin(stream_list)
  /\ IF ~StreamNodeIterator_eq(begin(stream_list), end)
     THEN /\ host_pc' = "deviceToHost"
          /\ s_it' = streamBegin(stream_list)
          /\ UNCHANGED read_log
     ELSE /\ read_log' = Logged(read_log, [value |-> root_value,
                                           synced |-> <<>>, folded |-> <<>>])
          /\ UNCHANGED <<host_pc, s_it>>
  /\ UNCHANGED <<launchVars, warpVars, kernelVars, threadVars, copyVars,
                 root_value,
                 root_index, stream_list,
                 pinned, launches, expected,
                 freed, pool_log>>

\* Reduce_Data::deviceToHost, one turn of its loop: synchronize(*s) returns
\* when the stream has drained
deviceToHost_sync ==
  /\ variant = "host" /\ host_pc = "deviceToHost"
  /\ s_it # streamEnd(stream_list)
  /\ synchronize(stream_list[s_it].stream)
  /\ synced' = Append(synced, stream_list[s_it].stream)
  /\ s_it' = s_it + 1
  /\ UNCHANGED <<launchVars, warpVars, kernelVars, threadVars, copyVars,
                 root_value,
                 root_index, host_pc,
                 stream_list, pinned, launches, n_it, folded, read_log, expected,
                 freed, pool_log>>

\* Reduce_Data::deviceToHost returns at s == end
deviceToHost_end ==
  /\ variant = "host" /\ host_pc = "deviceToHost"
  /\ s_it = streamEnd(stream_list)
  /\ host_pc' = "fold"
  /\ UNCHANGED <<launchVars, warpVars, kernelVars, threadVars, copyVars,
                 root_value,
                 root_index, stream_list,
                 pinned, launches, s_it, n_it, synced, folded, read_log, expected,
                 freed, pool_log>>

\* Reduce::operator T, one turn of for ( ; n != end; ++n) Reducer{}(val.value, *n)
operator_T_fold ==
  /\ variant = "host" /\ host_pc = "fold"
  /\ ~StreamNodeIterator_eq(n_it, end)
  /\ root_value' = Reducer(reducer, root_value,
                           pinned[StreamNodeIterator_node(stream_list, n_it)])
  /\ folded' = Append(folded, StreamNodeIterator_node(stream_list, n_it))
  /\ launches' = [l \in 1..Len(launches) |->
                    IF launches[l].node = StreamNodeIterator_node(stream_list, n_it)
                    THEN [launches[l] EXCEPT !.folds = @ + 1]
                    ELSE launches[l]]
  /\ n_it' = StreamNodeIterator_next(stream_list, n_it)
  /\ UNCHANGED <<launchVars, warpVars, kernelVars, threadVars, copyVars,
                 root_index, host_pc, stream_list,
                 pinned, s_it, synced, read_log, expected, freed, pool_log>>

\* Reduce::operator T at n == end: val.cleanup(info) frees the tally's list
\* and val.value is returned
cleanup ==
  /\ variant = "host" /\ host_pc = "fold"
  /\ StreamNodeIterator_eq(n_it, end)
  /\ stream_list' = free_list(stream_list)
  /\ read_log' = Logged(read_log, [value |-> root_value,
                                   synced |-> synced, folded |-> folded])
  /\ freed' = freed \cup (TallyNodes(stream_list)
                          \ TallyNodes(free_list(stream_list)))
  /\ pool_log' = pool_log \o free_list_frees(stream_list)
  /\ host_pc' = "idle"
  /\ UNCHANGED <<launchVars, warpVars, kernelVars, threadVars, copyVars,
                 root_value,
                 root_index, pinned,
                 launches, s_it, n_it, synced, folded, expected>>

\* a root Reduce(init_val) on the host, its tally empty and no kernel
\* launched yet (each launch comes with its own grid)
InitHost ==
  /\ variant = "host"
  /\ reducer \in Reducers
  /\ numBlocks = 0 /\ numThreads = 0
  /\ junk \in JunkVals
  /\ seed \in Vals \cup {identity(reducer)}
  /\ value = <<>> /\ index = <<>> /\ contrib = {}
  /\ pc = <<>> /\ device_mem = <<>> /\ deviceLoc_mem = <<>>
  /\ device_count = 0 /\ old_count = <<>> /\ lastBlock = <<>>
  /\ val_ptr = junk /\ writers = <<>> /\ mem_log = <<>>
  /\ root_value = seed /\ root_index = 0 /\ host_pc = "idle"
  /\ stream_list = <<>> /\ pinned = <<>> /\ launches = <<>>
  /\ s_it = 0 /\ n_it = <<0, 0>> /\ synced = <<>> /\ folded = <<>>
  /\ read_log = <<>> /\ expected = seed /\ freed = {}
  /\ pool_log = <<>>
  /\ m_mutex = 0 /\ callers = <<>> /\ handles = <<>> /\ scratch = <<>>
  /\ NoWarps

NextHost ==
  \/ \E s \in Streams : Launch(s)
  \/ \E l \in 1..MaxLaunches : Kernel(l)
  \/ operator_T_begin
  \/ deviceToHost_sync
  \/ deviceToHost_end
  \/ operator_T_fold
  \/ cleanup

SpecHost == InitHost /\ [][NextHost]_vars

\* ----------------------------------------------------------- host: claims

\* C9: two consecutive reads of the root with no launch in between return the
\* same value, and the second read calls synchronize on no stream and folds
\* no slot (the first read emptied the tally).
C9_SecondReadIdle ==
  (variant = "host" /\ Len(read_log) = 2) =>
     /\ read_log[2].value = read_log[1].value
     /\ read_log[2].synced = <<>>
     /\ read_log[2].folded = <<>>

\* two reads in a row, the first of which had slots of two streams to fold
C9_Witness ==
  /\ variant = "host" /\ host_pc = "idle" /\ Len(read_log) = 2
  /\ Len(read_log[1].synced) > 1 /\ Len(read_log[1].folded) > 1
  /\ read_log[1].value # seed

\* C10: a read with slots on several streams calls synchronize on every stream
\* that has a stream node in the tally before it folds any slot (so every
\* kernel has stored its slot by then), and the value it returns is the
\* combine of the seed with the aggregate of every launch on every stream.
C10_SyncAllThenFold ==
  variant = "host" =>
     /\ host_pc = "fold" =>
          /\ \A k \in 1..Len(stream_list) :
               \E j \in 1..Len(synced) : synced[j] = stream_list[k].stream
          /\ \A l \in 1..Len(launches) : launches[l].done
     /\ \A k \in 1..Len(read_log) : read_log[k].value = expected

\* a read that synchronized two streams and folded the slots of both
C10_Witness ==
  /\ variant = "host" /\ host_pc = "idle" /\ Len(read_log) = 1
  /\ Len(read_log[1].synced) = 2 /\ Len(read_log[1].folded) = 2
  /\ read_log[1].value # seed

\* the launches of stream s whose slot is still allocated
LiveLaunches(s) ==
  {l \in 1..Len(launches) : launches[l].stream = s /\ launches[l].node \notin freed}

\* C11: N launches on one stream with no read in between leave exactly one
\* stream node for that stream, holding N pairwise-distinct slots; every slot
\* is the write target of exactly one launch, and the next read folds all N
\* slots, each once.
C11_OneNodePerStreamNSlots ==
  variant = "host" =>
     /\ \A j, k \in 1..Len(stream_list) :
          stream_list[j].stream = stream_list[k].stream => j = k
     /\ \A s \in Streams :
          IF LiveLaunches(s) = {}
          THEN \A k \in 1..Len(stream_list) : stream_list[k].stream # s
          ELSE \E k \in 1..Len(stream_list) :
                 /\ stream_list[k].stream = s
                 /\ Len(stream_list[k].node_list) = Cardinality(LiveLaunches(s))
                 /\ {stream_list[k].node_list[i] :
                       i \in 1..Len(stream_list[k].node_list)}
                    = {launches[l].node : l \in LiveLaunches(s)}
     /\ \A l, m \in 1..Len(launches) :
          launches[l].node = launches[m].node => l = m
     /\ (host_pc = "fold" /\ StreamNodeIterator_eq(n_it, end)) =>
          /\ {folded[i] : i \in 1..Len(folded)} = TallyNodes(stream_list)
          /\ Len(folded) = Cardinality(TallyNodes(stream_list))

\* MaxLaunches launches on one stream, then a read that folded them all
C11_Witness ==
  /\ variant = "host" /\ host_pc = "idle" /\ Len(read_log) = 1
  /\ Len(launches) = MaxLaunches /\ MaxLaunches > 1
  /\ \A l \in 1..Len(launches) : launches[l].stream = launches[1].stream
  /\ Len(read_log[1].folded) = MaxLaunches
  /\ Len(read_log[1].synced) = 1
  /\ read_log[1].value # seed

\* ------------------------------------------ one launch and the read after

\* Reduce::operator T / ReduceAtomic::operator T on the root after one launch:
\* the tally holds the launch's slot, deviceToHost synchronizes its stream
\* (which returns once the kernel has finished), the slot is folded into
\* val.value and cleanup frees the tally's list
Reduce_get ==
  /\ variant \in {"tree", "atomic"} /\ host_pc = "kernel" /\ AllDone
  /\ root_value' = Reducer(reducer, root_value, val_ptr)
  /\ host_pc' = "read"
  /\ UNCHANGED <<launchVars, warpVars, tallyVars, threadVars, copyVars,
                 root_index, pc, device_mem,
                 deviceLoc_mem, device_count, old_count, lastBlock, val_ptr,
                 writers, mem_log>>

\* a root Reduce(init_val) or ReduceAtomic(init_val) and one launch against
\* it: the tree variant's device_mem holds whatever its pool held, the atomic
\* variant's accumulator comes zeroed, as does device_count
InitRead ==
  /\ variant \in {"tree", "atomic"}
  /\ reducer \in Reducers
  /\ numBlocks \in 1..MaxBlocks
  /\ numThreads \in 1..MaxThreads
  /\ junk \in JunkVals
  /\ value \in Locals(reducer, numBlocks, numThreads, MaxContrib)
  /\ seed \in Vals \cup {identity(reducer)}
  /\ pc = [b \in Blocks |-> IF variant = "tree" THEN "start" ELSE "setup"]
  /\ device_mem = IF variant = "tree" THEN [i \in Blocks |-> junk]
                                      ELSE [i \in {0} |-> 0]
  /\ device_count = 0
  /\ old_count = [b \in Blocks |-> 0]
  /\ lastBlock = [b \in Blocks |-> FALSE]
  /\ val_ptr = junk
  /\ writers = <<>>
  /\ mem_log = <<>>
  /\ index = <<>> /\ contrib = {} /\ deviceLoc_mem = <<>>
  /\ root_value = seed /\ root_index = 0 /\ host_pc = "kernel"
  /\ NoTally

NextRead ==
  \/ NextTree
  \/ NextAtomic
  \/ Reduce_get

SpecRead == InitRead /\ [][NextRead]_vars

\* no thread of the launch called combine: every copy still holds identity
NoCombine ==
  \A b \in Blocks : \A t \in Threads : value[b][t] = identity(reducer)

\* C12: for every reducer and both variants, a launch of any geometry in which
\* no thread calls combine, followed by a read, returns exactly the seed.
\* Violated: the atomic variant with a bitwise-zero identity and more than
\* one block never writes the pinned slot, and the read folds what the slot
\* held before.
C12_EmptyLaunchReturnsSeed ==
  (variant \in {"tree", "atomic"} /\ host_pc = "read" /\ NoCombine) =>
     root_value = seed

\* ------------------------------------- host threads in PinnedTally::new_value

HostThreads == 1..MaxHostThreads

\* whether lock_guard<omp::mutex> lock(m_mutex) lets a thread in: the guard
\* and the mutex exist only in a build with RAJA_ENABLE_OPENMP and _OPENMP
lock_guard(mutex) == mutex = -1 \/ mutex = 0

\* the mutex once thread h is past the guard
locked_by(mutex, h) == IF mutex = -1 THEN -1 ELSE h

\* the mutex once the guard of its holder is destroyed
unlocked(mutex) == IF mutex = -1 THEN -1 ELSE 0

\* a stream node is known by its place counted from the tail of stream_list,
\* which no insertion at the head changes: the stream node at position k
StreamNodeAt(list, k) == Len(list) - k + 1

\* StreamNode* sn = stream_list; while(sn) { if (sn->stream == stream) break;
\* sn = sn->next; }: the stream node found, 0 for nullptr
search(list, stream) ==
  IF \E k \in 1..Len(list) : list[k].stream = stream
  THEN StreamNodeAt(list, CHOOSE k \in 1..Len(list) :
                            /\ list[k].stream = stream
                            /\ \A j \in 1..(k - 1) : list[j].stream # stream)
  ELSE 0

\* host thread h calls new_value(s) and passes the lock guard
new_value_lock(h, s) ==
  /\ variant = "mutex" /\ callers[h].pc = "out"
  /\ Len(callers[h].got) < MaxLaunches
  /\ lock_guard(m_mutex)
  /\ m_mutex' = locked_by(m_mutex, h)
  /\ callers' = [callers EXCEPT ![h].pc = "search", ![h].stream = s]
  /\ UNCHANGED <<launchVars, warpVars, kernelVars, tallyVars, copyVars,
                 root_value,
                 root_index, host_pc>>

\* the search loop over the stream nodes
new_value_search(h) ==
  /\ variant = "mutex" /\ callers[h].pc = "search"
  /\ callers' = [callers EXCEPT
                   ![h].sn = search(stream_list, callers[h].stream),
                   ![h].pc = IF search(stream_list, callers[h].stream) = 0
                             THEN "create" ELSE "malloc"]
  /\ UNCHANGED <<launchVars, warpVars, kernelVars, tallyVars, copyVars,
                 root_value,
                 root_index, host_pc, m_mutex>>

\* if (!sn): a stream node is allocated and made the head of stream_list
new_value_create(h) ==
  /\ variant = "mutex" /\ callers[h].pc = "create"
  /\ stream_list' = <<[stream |-> callers[h].stream, node_list |-> <<>>]>>
                    \o stream_list
  /\ pool_log' = Append(pool_log,
                        pool_call("malloc", "StreamNode", callers[h].stream))
  /\ callers' = [callers EXCEPT ![h].sn = Len(stream_list) + 1,
                                ![h].pc = "malloc"]
  /\ UNCHANGED <<launchVars, warpVars, kernelVars, copyVars, root_value,
                 root_index,
                 host_pc, m_mutex, pinned, launches, s_it, n_it, synced,
                 folded, read_log, expected, freed>>

\* Node* n = pinned_mempool.malloc<Node>(1); n->next = sn->node_list
new_value_malloc(h) ==
  /\ variant = "mutex" /\ callers[h].pc = "malloc"
  /\ pinned' = Append(pinned, junk)
  /\ pool_log' = Append(pool_log, pool_call("malloc", "Node", Len(pinned) + 1))
  /\ callers' = [callers EXCEPT
                   ![h].n = Len(pinned) + 1,
                   ![h].next = stream_list[StreamNodeAt(stream_list,
                                                        callers[h].sn)].node_list,
                   ![h].pc = "link"]
  /\ UNCHANGED <<launchVars, warpVars, kernelVars, copyVars, root_value,
                 root_index,
                 host_pc, m_mutex, stream_list, launches, s_it, n_it, synced,
                 folded, read_log, expected, freed>>

\* sn->node_list = n; return &n->value, which destroys the lock guard
new_value_link(h) ==
  /\ variant = "mutex" /\ callers[h].pc = "link"
  /\ stream_list' = [stream_list EXCEPT
                       ![StreamNodeAt(stream_list, callers[h].sn)].node_list =
                          <<callers[h].n>> \o callers[h].next]
  /\ m_mutex' = unlocked(m_mutex)
  /\ callers' = [callers EXCEPT
                   ![h].got = Append(@, <<callers[h].stream, callers[h].n>>),
                   ![h].pc = "out"]
  /\ UNCHANGED <<launchVars, warpVars, kernelVars, copyVars, root_value,
                 root_index,
                 host_pc, pinned, launches, s_it, n_it, synced, folded,
                 read_log, expected, freed, pool_log>>

\* an empty tally shared by the host threads, in a build with OpenMP (the
\* mutex is there and free) or without (there is none)
InitMutex ==
  /\ variant = "mutex"
  /\ reducer \in Reducers
  /\ numBlocks = 0 /\ numThreads = 0
  /\ junk \in JunkVals
  /\ seed = identity(reducer)
  /\ value = <<>> /\ index = <<>> /\ contrib = {}
  /\ pc = <<>> /\ device_mem = <<>> /\ deviceLoc_mem = <<>>
  /\ device_count = 0 /\ old_count = <<>> /\ lastBlock = <<>>
  /\ val_ptr = junk /\ writers = <<>> /\ mem_log = <<>>
  /\ root_value = seed /\ root_index = 0 /\ host_pc = "idle"
  /\ stream_list = <<>> /\ pinned = <<>> /\ launches = <<>>
  /\ s_it = 0 /\ n_it = <<0, 0>> /\ synced = <<>> /\ folded = <<>>
  /\ read_log = <<>> /\ expected = seed /\ freed = {}
  /\ pool_log = <<>>
  /\ m_mutex \in {0, -1}
  /\ callers = [h \in HostThreads |->
                  [pc |-> "out", stream |-> 0, sn |-> 0, n |-> 0,
                   next |-> <<>>, got |-> <<>>]]
  /\ handles = <<>> /\ scratch = <<>>
  /\ NoWarps

NextMutex ==
  \E h \in HostThreads :
    \/ \E s \in Streams : new_value_lock(h, s)
    \/ new_value_search(h)
    \/ new_value_create(h)
    \/ new_value_malloc(h)
    \/ new_value_link(h)

SpecMutex == InitMutex /\ [][NextMutex]_vars

\* the <<stream, node>> pairs new_value has returned so far
Returned ==
  UNION {{callers[h].got[i] : i \in 1..Len(callers[h].got)} : h \in HostThreads}

\* C13: new_value called concurrently by several host threads on the same
\* tally is serialized by the tally mutex: one thread at a time is inside,
\* every call returns a distinct slot, every returned slot is reachable from
\* the tally under its stream afterwards, and a stream has at most one stream
\* node.  Violated in a build without OpenMP, where no mutex is compiled.
C13_NewValueSerialized ==
  variant = "mutex" =>
     /\ Cardinality({h \in HostThreads : callers[h].pc # "out"}) <= 1
     /\ \A h, g \in HostThreads :
          \A i \in 1..Len(callers[h].got), j \in 1..Len(callers[g].got) :
             callers[h].got[i][2] = callers[g].got[j][2] => (h = g /\ i = j)
     /\ \A r \in Returned :
          \E k \in 1..Len(stream_list) :
             /\ stream_list[k].stream = r[1]
             /\ \E i \in 1..Len(stream_list[k].node_list) :
                   stream_list[k].node_list[i] = r[2]
     /\ \A j, k \in 1..Len(stream_list) :
          stream_list[j].stream = stream_list[k].stream => j = k

\* ------------------------------------- host: the copies of a Reduce handle

\* a faulty variant: the copy takes over the ownership flag of its source
Reduce_Data_copy_own(other) ==
  [device |-> other.device, own_device_ptr |-> other.own_device_ptr]

\* Reduce_Data(const Reduce_Data &other): the device pointers (device and
\* device_count go together) are shared, ownership is not
Reduce_Data_copy(other) ==
  [device |-> other.device, own_device_ptr |-> FALSE]

\* a faulty variant: setupReducers() is not asked
setupForDevice_act_unasked(device, inLaunch) == device = 0

\* Reduce_Data::setupForDevice on the host: act = !device && setupReducers()
setupForDevice_act(device, inLaunch) == device = 0 /\ inLaunch

\* Reduce(const Reduce &other) on the host, in handle o's place a new handle:
\* parent is taken from other, val is copied; a copy that has a parent tries
\* setupForDevice, which acts when device is null and setupReducers() says
\* that a kernel launch is being set up (inLaunch, kept in the handle as
\* pending): it allocates device and
\* device_count (allocation Len(scratch) + 1), takes a slot from the tally on
\* the current stream s, sets own_device_ptr, and parent becomes nullptr
Reduce_copy(o, inLaunch, s) ==
  /\ variant = "copy" /\ o \in 1..Len(handles) /\ handles[o].alive
  /\ Len(handles) <= MaxCopies
  /\ LET h == Len(handles) + 1
         val == Reduce_Data_copy(handles[o])
         act == handles[o].parent # 0 /\ setupForDevice_act(val.device, inLaunch)
     IN  IF act
         THEN /\ handles' = Append(handles,
                   [parent |-> 0, device |-> Len(scratch) + 1,
                    own_device_ptr |-> TRUE, alive |-> TRUE,
                    from |-> o, act |-> TRUE, pending |-> inLaunch])
              /\ scratch' = Append(scratch, [by |-> h, frees |-> 0, freed_by |-> {}])
              /\ stream_list' = new_value(stream_list, s, Len(pinned) + 1)
              /\ pool_log' = pool_log \o new_value_mallocs(stream_list, s,
                                                            Len(pinned) + 1)
              /\ pinned' = Append(pinned, junk)
         ELSE /\ handles' = Append(handles,
                   [parent |-> handles[o].parent, device |-> val.device,
                    own_device_ptr |-> val.own_device_ptr, alive |-> TRUE,
                    from |-> o, act |-> FALSE, pending |-> inLaunch])
              /\ UNCHANGED <<scratch, stream_list, pinned, pool_log>>
  /\ UNCHANGED <<launchVars, warpVars, kernelVars, threadVars, root_value,
                 root_index,
                 host_pc, launches, s_it, n_it, synced, folded, read_log,
                 expected, freed>>

\* ~Reduce() on the host of a handle that is not the root: a copy with a
\* parent folds its value (still identity on the host) into the parent, a
\* copy without one runs teardownForDevice, which frees device and
\* device_count if own_device_ptr is set
Reduce_destroy_copy(h) ==
  /\ variant = "copy" /\ h \in 2..Len(handles) /\ handles[h].alive
  /\ IF handles[h].parent # 0
     THEN /\ root_value' = Reducer(reducer, root_value, identity(reducer))
          /\ handles' = [handles EXCEPT ![h].alive = FALSE]
          /\ UNCHANGED scratch
     ELSE IF handles[h].own_device_ptr
     THEN /\ scratch' = [scratch EXCEPT
                           ![handles[h].device].frees = @ + 1,
                           ![handles[h].device].freed_by = @ \cup {h}]
          /\ handles' = [handles EXCEPT ![h].alive = FALSE, ![h].device = 0,
                                        ![h].own_device_ptr = FALSE]
          /\ UNCHANGED root_value
     ELSE /\ handles' = [handles EXCEPT ![h].alive = FALSE]
          /\ UNCHANGED <<scratch, root_value>>
  /\ UNCHANGED <<launchVars, warpVars, kernelVars, threadVars, tallyVars,
                 root_index,
                 host_pc>>

\* a root Reduce(init_val): parent is the root itself, no device pointers
InitCopy ==
  /\ variant = "copy"
  /\ reducer \in Reducers
  /\ numBlocks = 0 /\ numThreads = 0
  /\ junk \in JunkVals
  /\ seed \in Vals \cup {identity(reducer)}
  /\ value = <<>> /\ index = <<>> /\ contrib = {}
  /\ pc = <<>> /\ device_mem = <<>> /\ deviceLoc_mem = <<>>
  /\ device_count = 0 /\ old_count = <<>> /\ lastBlock = <<>>
  /\ val_ptr = junk /\ writers = <<>> /\ mem_log = <<>>
  /\ root_value = seed /\ root_index = 0 /\ host_pc = "idle"
  /\ stream_list = <<>> /\ pinned = <<>> /\ launches = <<>>
  /\ s_it = 0 /\ n_it = <<0, 0>> /\ synced = <<>> /\ folded = <<>>
  /\ read_log = <<>> /\ expected = seed /\ freed = {}
  /\ pool_log = <<>>
  /\ m_mutex = 0 /\ callers = <<>>
  /\ handles = <<[parent |-> 1, device |-> 0, own_device_ptr |-> FALSE,
                  alive |-> TRUE, from |-> 0, act |-> FALSE,
                  pending |-> FALSE]>>
  /\ scratch = <<>>
  /\ NoWarps

NextCopy ==
  \/ \E o \in 1..MaxCopies, inLaunch \in BOOLEAN, s \in Streams :
       Reduce_copy(o, inLaunch, s)
  \/ \E h \in 2..(MaxCopies + 1) : Reduce_destroy_copy(h)

SpecCopy == InitCopy /\ [][NextCopy]_vars

\* the handles whose setupForDevice acted
Launchers == {h \in 1..Len(handles) : handles[h].act}

\* C14: for each kernel launch exactly one handle copy, the host copy whose
\* setupForDevice succeeded, has own_device_ptr set; device scratch and
\* counter are freed exactly once, by that copy's destructor; further host
\* copies of the launcher neither allocate scratch or a pinned slot nor free
\* anything.
C14_OneOwnerPerLaunch ==
  variant = "copy" =>
     /\ \A a \in 1..Len(scratch) :
          /\ scratch[a].by \in Launchers
          /\ {h \in 1..Len(handles) :
                handles[h].own_device_ptr /\ handles[h].device = a}
             = IF handles[scratch[a].by].alive THEN {scratch[a].by} ELSE {}
          /\ scratch[a].frees = IF handles[scratch[a].by].alive THEN 0 ELSE 1
          /\ scratch[a].freed_by \subseteq {scratch[a].by}
     /\ \A h \in 1..Len(handles) :
          handles[h].own_device_ptr =>
             handles[h].device \in 1..Len(scratch) /\ handles[h].alive
     /\ Len(scratch) = Cardinality(Launchers)
     /\ Cardinality(TallyNodes(stream_list)) = Cardinality(Launchers)
     /\ Len(pinned) = Cardinality(Launchers)
     /\ \A h \in 2..Len(handles) :
          handles[handles[h].from].parent = 0 => ~handles[h].act

\* a launcher and a copy of it were both destroyed, the copy last
C14_Witness ==
  /\ variant = "copy"
  /\ \E l \in Launchers, h \in 2..Len(handles) :
       /\ handles[h].from = l /\ ~handles[h].alive /\ ~handles[l].alive
       /\ handles[h].device \in 1..Len(scratch)
       /\ scratch[handles[h].device].by = l
       /\ scratch[handles[h].device].frees = 1

\* ------------------------------------------- host: the end of the root

\* ~Reduce() of the root (parent == this): val.destroy() deletes the tally,
\* whose destructor runs free_list(); no stream is synchronized and no slot
\* is folded on the way
Reduce_destroy_root ==
  /\ variant = "host" /\ host_pc = "idle"
  /\ stream_list' = free_list(stream_list)
  /\ freed' = freed \cup TallyNodes(stream_list)
  /\ pool_log' = pool_log \o free_list_frees(stream_list)
  /\ synced' = <<>> /\ folded' = <<>>
  /\ host_pc' = "destroyed"
  /\ UNCHANGED <<launchVars, warpVars, kernelVars, threadVars, copyVars,
                 root_value,
                 root_index, pinned, launches, s_it, n_it, read_log, expected>>

NextDestroy ==
  \/ NextHost
  \/ Reduce_destroy_root

SpecDestroy == InitHost /\ [][NextDestroy]_vars

\* C15: destroying the root on the host synchronizes every stream that has
\* slots in the tally and folds all slot values into the seed before the
\* tally and its slots are freed: once the root is gone every kernel launched
\* against it has finished and every launch's value is in val.value.
\* Violated: the destructor only frees the tally.
C15_DestroySyncsAndFolds ==
  (variant = "host" /\ host_pc = "destroyed") =>
     /\ \A l \in 1..Len(launches) : launches[l].done
     /\ root_value = expected

\* ---------------------------------------------- block_reduce on its own

\* the block sizes that are whole warps, from one warp to MAX_WARPS warps
WholeWarps == {w * WARP_SIZE : w \in 1..MAX_WARPS}

\* what the threads of one block pass to block_reduce: identity everywhere
\* but in the threads that combined something, or the same value everywhere
BlockInputs(R, nT) ==
  Locals(R, 1, nT, MaxContrib)
    \cup {[b \in {0} |-> [t \in 0..(nT - 1) |-> v]] : v \in Vals}

\* every thread of the block calls block_reduce<Reducer>(val); what thread 0
\* gets back is kept in val_ptr
block_reduce_call ==
  /\ variant = "block" /\ pc[0] = "start"
  /\ val_ptr' = block_reduce(reducer, value[0], numThreads, junk)[0]
  /\ pc' = [pc EXCEPT ![0] = "done"]
  /\ UNCHANGED <<launchVars, warpVars, hostVars, device_mem, deviceLoc_mem,
                 device_count, old_count, lastBlock, writers, mem_log>>

\* one block of whole warps about to call block_reduce
InitBlock ==
  /\ variant = "block"
  /\ reducer \in Reducers
  /\ numBlocks = 1
  /\ numThreads \in WholeWarps
  /\ junk \in JunkVals
  /\ value \in BlockInputs(reducer, numThreads)
  /\ pc = [b \in Blocks |-> "start"]
  /\ device_mem = <<>> /\ deviceLoc_mem = <<>>
  /\ device_count = 0
  /\ old_count = [b \in Blocks |-> 0]
  /\ lastBlock = [b \in Blocks |-> FALSE]
  /\ val_ptr = junk
  /\ writers = <<>>
  /\ mem_log = <<>>
  /\ index = <<>> /\ contrib = {} /\ seed = <<>>
  /\ root_value = 0 /\ root_index = 0 /\ host_pc = "kernel"
  /\ NoTally

NextBlock == block_reduce_call

SpecBlock == InitBlock /\ [][NextBlock]_vars

\* C16: block_reduce with a thread count that is a multiple of the warp size,
\* from one warp to MAX_WARPS warps: thread 0 gets the combine of the inputs
\* of all the block's threads, each once; the lanes of warp 0 that stand for
\* warps that do not exist contribute identity.
C16_BlockReduceWholeWarps ==
  (variant = "block" /\ pc[0] = "done" /\ numThreads % WARP_SIZE = 0) =>
     val_ptr = SerialOver(reducer, value, 1, numThreads, 0, identity(reducer))

\* several warps, fewer than MAX_WARPS, the input of a thread of the last
\* warp being the only one that differs from identity
C16_Witness ==
  /\ variant = "block" /\ pc[0] = "done"
  /\ numThreads > WARP_SIZE /\ numThreads < MAX_WARPS * WARP_SIZE
  /\ value[0][numThreads - 1] # identity(reducer)
  /\ \A t \in 0..(numThreads - 2) : value[0][t] = identity(reducer)
  /\ val_ptr = value[0][numThreads - 1]

\* C17: with a grid of exactly one block neither variant touches device_count
\* or the device scratch: the tree path, the atomic path and the atomic
\* initializer leave them as they were, and thread 0 returns the block
\* aggregate directly for the pinned-slot write (whatever the scratch holds).
C17_SingleBlockSkipsScratch ==
  /\ []((variant \in {"tree", "atomic"} /\ numBlocks = 1) =>
          /\ device_count = 0 /\ mem_log = <<>>
          /\ \A b \in Blocks : old_count[b] = 0
          /\ Len(writers) > 0 =>
               writers = <<<<0, 0>>>> /\ val_ptr = block_aggregate(0))
  /\ [][(variant \in {"tree", "atomic"} /\ numBlocks = 1) =>
          (device_count' = device_count /\ device_mem' = device_mem)]_vars

\* a single-block launch of the atomic variant with an identity that is not
\* bitwise zero has stored a combined value in the pinned slot
C17_Witness ==
  /\ variant = "atomic" /\ numBlocks = 1 /\ AllDone
  /\ ~bitwize_zero(identity(reducer))
  /\ numThreads > WARP_SIZE
  /\ val_ptr # identity(reducer) /\ val_ptr # junk

\* C18: in the tree variant no block is declared last before all numBlocks
\* blocks have executed their atomicInc, and when the last block reads
\* device_mem[i] during accumulation, thread 0 of block i has already stored
\* its block aggregate there, for every i in 0..numBlocks-1.
C18_LastAfterAllCounted ==
  (variant = "tree" /\ numBlocks > 1) =>
    \A b \in Blocks :
      lastBlock[b] =>
        /\ \A c \in Blocks : pc[c] \in {"counted", "done"}
        /\ \A i \in Blocks : device_mem[i] = block_aggregate(i)

\* the last block of the largest grid is about to accumulate, another block
\* has not yet passed its barrier, and device_mem no longer holds what the
\* pool left in it
C18_Witness ==
  /\ variant = "tree" /\ numBlocks = MaxBlocks
  /\ \E b, c \in Blocks :
       /\ b # c /\ lastBlock[b] /\ pc[b] = "counted" /\ pc[c] = "counted"
       /\ device_mem[c] # junk /\ device_mem[c] # identity(reducer)

\* C19: in the atomic variant, for every reducer (bitwise-zero identity or
\* not) and every numBlocks > 1, device_count never exceeds numBlocks + 1
\* during the launch and is 0 again when the launch completes, so the counter
\* goes back to the zero-initialized pool zeroed.
C19_AtomicCountZeroAtEnd ==
  (variant = "atomic" /\ numBlocks > 1) =>
    /\ device_count <= numBlocks + 1
    /\ AllDone => device_count = 0

\* C19 for the reducers whose identity is not bitwise zero, for which the
\* initializer's handshake runs
C19_HandshakeCountZeroAtEnd ==
  (variant = "atomic" /\ numBlocks > 1 /\ NonZeroIdentity) =>
    /\ device_count <= numBlocks + 1
    /\ AllDone => device_count = 0

\* --------------------------- atomic: the cells go back to the zeroed pool

\* ReduceAtomic_Data::teardownForDevice of the copy that owns the device
\* cells, after its launch: device and device_count are freed to
\* device_zeroed_mempool holding what the kernel left in them
ReduceAtomic_teardownForDevice ==
  /\ variant = "atomic" /\ host_pc = "kernel" /\ AllDone
  /\ scratch' = <<[device |-> device_mem[0], device_count |-> device_count]>>
  /\ host_pc' = "teardown"
  /\ UNCHANGED <<launchVars, warpVars, kernelVars, root_value, root_index,
                 tallyVars, threadVars, handles>>

NextTeardown == NextAtomic \/ ReduceAtomic_teardownForDevice

SpecTeardown == InitAtomic /\ [][NextTeardown]_vars

\* C20: in the atomic variant the single-element accumulator taken from the
\* zero-initialized pool holds all-zero bits again when teardownForDevice
\* returns it to that pool, so that a later launch with a bitwise-zero
\* identity that is handed the same cell starts from identity.
C20_AccumulatorZeroAtTeardown ==
  (variant = "atomic" /\ host_pc = "teardown") =>
    \A k \in 1..Len(scratch) : bitwize_zero(scratch[k].device)

\* ------------------------------- block_reduce with a partial last warp

\* the block sizes that are not whole warps
PartialWarps ==
  {n \in 1..(MaxPartialWarps * WARP_SIZE) : n % WARP_SIZE # 0}

\* one block whose last warp is partial about to call block_reduce
InitBlockPartial ==
  /\ variant = "block"
  /\ reducer \in Reducers
  /\ numBlocks = 1
  /\ numThreads \in PartialWarps
  /\ junk \in JunkVals
  /\ value \in BlockInputs(reducer, numThreads)
  /\ pc = [b \in Blocks |-> "start"]
  /\ device_mem = <<>> /\ deviceLoc_mem = <<>>
  /\ device_count = 0
  /\ old_count = [b \in Blocks |-> 0]
  /\ lastBlock = [b \in Blocks |-> FALSE]
  /\ val_ptr = junk
  /\ writers = <<>>
  /\ mem_log = <<>>
  /\ index = <<>> /\ contrib = {} /\ seed = <<>>
  /\ root_value = 0 /\ root_index = 0 /\ host_pc = "kernel"
  /\ NoTally

SpecBlockPartial == InitBlockPartial /\ [][NextBlock]_vars

\* C21: block_reduce with a thread count that is not a multiple of the warp
\* size: a value shuffled from a source lane whose thread id is >= numThreads
\* is never combined (the result does not depend on what such a shuffle
\* returns), and thread 0 returns the combine of every existing thread's input
\* exactly once, both when numThreads < WARP_SIZE and when only the last warp
\* is partial.
C21_BlockReducePartialWarp ==
  (variant = "block" /\ pc[0] = "done" /\ numThreads % WARP_SIZE # 0) =>
     /\ val_ptr = SerialOver(reducer, value, 1, numThreads, 0, identity(reducer))
     /\ \A undef \in JunkVals :
          val_ptr = block_reduce(reducer, value[0], numThreads, undef)[0]

\* several warps of which the last is partial, every thread passing the same
\* value, for a reducer that a shuffle from a missing lane would disturb
C21_Witness ==
  /\ variant = "block" /\ pc[0] = "done"
  /\ numThreads > WARP_SIZE /\ numThreads % WARP_SIZE # 0
  /\ reducer = "sum" /\ \A t \in Threads : value[0][t] = 2
  /\ val_ptr = 2 * numThreads

\* ------------------------- tree: one block of the grid, warp by warp

\* the block whose threads are followed; the other blocks of the grid have
\* either gone through their atomicInc already or have not started
blockId == 0

Warps == 0..((numThreads + WARP_SIZE - 1) \div WARP_SIZE - 1)

\* the threads with warpNum = w
Lanes(w) == {t \in Threads : t \div WARP_SIZE = w}

at(w, where, call) == wpc[w] = [at |-> where, call |-> call]

\* a faulty variant: every thread keeps the lastBlock it passed in
syncthreads_own(flags, t) == flags[t]

\* __syncthreads_or(lastBlock) as returned to thread t
syncthreads_or(flags, t) == \E u \in DOMAIN flags : flags[u]

\* a faulty variant: block_reduce returns without its second __syncthreads()
no_trailing_sync(call) == [at |-> "after", call |-> call]

\* where a thread stands that is done with sd[] in block_reduce: at the
\* second __syncthreads()
trailing_sync(call) == [at |-> "syncB", call |-> call]

\* "read per warp values" and the second butterfly, in the lanes of warp 0
per_warp_read(R, sdv, nThreads) ==
  LET warp0 == [l \in 0..(WARP_SIZE - 1) |->
                  IF l * WARP_SIZE < nThreads THEN sdv[l] ELSE identity(R)]
  IN  warp_loop_full(R, warp0, 1)

\* "reduce each warp", by the threads of warp w that are in the call
warp_reduce(w) ==
  /\ variant = "warps" /\ w \in Warps /\ wpc[w].at = "reduce"
  /\ LET red == IF numThreads % WARP_SIZE = 0
                THEN warp_loop_full(reducer, thread_temp, 1)
                ELSE warp_loop_guarded(reducer, thread_temp, 1, numThreads, junk)
     IN  thread_temp' = [t \in Threads |->
                           IF t \in Lanes(w) THEN red[t] ELSE thread_temp[t]]
  /\ wpc' = [wpc EXCEPT ![w] =
               [at |-> IF numThreads > WARP_SIZE THEN "publish" ELSE "after",
                call |-> wpc[w].call]]
  /\ UNCHANGED <<launchVars, hostVars, kernelVars, lastFlag, live, shared_sd,
                 sd_log>>

\* "write per warp values to shared memory" and arrival at __syncthreads()
publish(w) ==
  /\ variant = "warps" /\ w \in Warps /\ wpc[w].at = "publish"
  /\ IF w * WARP_SIZE \in live
     THEN /\ shared_sd' = [shared_sd EXCEPT ![w] = thread_temp[w * WARP_SIZE]]
          /\ sd_log' = Append(sd_log, <<"write", wpc[w].call, w>>)
     ELSE UNCHANGED <<shared_sd, sd_log>>
  /\ wpc' = [wpc EXCEPT ![w] = [at |-> "syncA", call |-> wpc[w].call]]
  /\ UNCHANGED <<launchVars, hostVars, kernelVars, thread_temp, lastFlag, live>>

\* every thread of the block stands at the barrier named where of call c
AllArrived(where, c) ==
  /\ live = Threads
  /\ \A w \in Warps : at(w, where, c)

\* the first __syncthreads() of block_reduce opens: warp 0 goes on to read
\* sd[], the other warps are done with it
syncthreads_first(c) ==
  /\ variant = "warps" /\ AllArrived("syncA", c)
  /\ wpc' = [w \in Warps |->
               IF w = 0 THEN [at |-> "read", call |-> c] ELSE trailing_sync(c)]
  /\ UNCHANGED <<launchVars, hostVars, kernelVars, thread_temp, lastFlag, live,
                 shared_sd, sd_log>>

\* warp 0 reads the per warp values and reduces them
read_per_warp(w) ==
  /\ variant = "warps" /\ w = 0 /\ wpc[w].at = "read"
  /\ LET red0 == per_warp_read(reducer, shared_sd, numThreads)
     IN  thread_temp' = [t \in Threads |->
                           IF t \in Lanes(0) THEN red0[t] ELSE thread_temp[t]]
  /\ sd_log' = Append(sd_log, <<"read", wpc[w].call, w>>)
  /\ wpc' = [wpc EXCEPT ![w] = trailing_sync(wpc[w].call)]
  /\ UNCHANGED <<launchVars, hostVars, kernelVars, lastFlag, live, shared_sd>>

\* the second __syncthreads() of block_reduce opens and the call returns
syncthreads_second(c) ==
  /\ variant = "warps" /\ AllArrived("syncB", c)
  /\ wpc' = [w \in Warps |-> [at |-> "after", call |-> c]]
  /\ UNCHANGED <<launchVars, hostVars, kernelVars, thread_temp, lastFlag, live,
                 shared_sd, sd_log>>

\* after the first block_reduce: thread 0 stores the block aggregate, takes
\* its turn at the counter and sets its lastBlock; every thread then arrives
\* at __syncthreads_or
grid_reduce_thread0(w) ==
  /\ variant = "warps" /\ w \in Warps /\ at(w, "after", 1)
  /\ IF w = 0
     THEN /\ device_mem' = [device_mem EXCEPT ![blockId] = thread_temp[0]]
          /\ device_count' = atomicInc(device_count, wrap_around(numBlocks))
          /\ old_count' = [old_count EXCEPT ![blockId] = device_count]
          /\ lastFlag' = [lastFlag EXCEPT
                            ![0] = (device_count = wrap_around(numBlocks))]
     ELSE UNCHANGED <<device_mem, device_count, old_count, lastFlag>>
  /\ wpc' = [wpc EXCEPT ![w] = [at |-> "syncOr", call |-> 1]]
  /\ UNCHANGED <<launchVars, hostVars, pc, deviceLoc_mem, lastBlock, val_ptr,
                 writers, mem_log, thread_temp, live, shared_sd, sd_log>>

\* lastBlock = __syncthreads_or(lastBlock) in every thread of the block
syncthreads_or_opens ==
  /\ variant = "warps" /\ AllArrived("syncOr", 1)
  /\ lastFlag' = [t \in Threads |-> syncthreads_or(lastFlag, t)]
  /\ wpc' = [w \in Warps |-> [at |-> "branch", call |-> 1]]
  /\ UNCHANGED <<launchVars, hostVars, kernelVars, thread_temp, live,
                 shared_sd, sd_log>>

\* if (lastBlock): the threads that hold true accumulate device_mem and call
\* block_reduce again, the others return false
accumulate_or_return(w) ==
  /\ variant = "warps" /\ w \in Warps /\ wpc[w].at = "branch"
  /\ LET entering == {t \in Lanes(w) : lastFlag[t]}
         acc == accumulate(reducer, device_mem, numBlocks, numThreads)
     IN  /\ thread_temp' = [t \in Threads |->
                              IF t \in entering THEN acc[t] ELSE thread_temp[t]]
         /\ live' = live \ (Lanes(w) \ entering)
         /\ wpc' = [wpc EXCEPT ![w] =
                      IF entering = {} THEN [at |-> "done", call |-> 1]
                      ELSE [at |-> "reduce", call |-> 2]]
  /\ UNCHANGED <<launchVars, hostVars, kernelVars, lastFlag, shared_sd, sd_log>>

\* after the second block_reduce: thread 0 returns true with the grid's
\* value, which destroy() stores in the pinned slot
grid_reduce_return(w) ==
  /\ variant = "warps" /\ w \in Warps /\ at(w, "after", 2)
  /\ IF w = 0 /\ 0 \in live
     THEN /\ val_ptr' = thread_temp[0]
          /\ writers' = Append(writers, <<blockId, 0>>)
     ELSE UNCHANGED <<val_ptr, writers>>
  /\ live' = live \ Lanes(w)
  /\ wpc' = [wpc EXCEPT ![w] = [at |-> "done", call |-> 2]]
  /\ UNCHANGED <<launchVars, hostVars, pc, device_mem, deviceLoc_mem,
                 device_count, old_count, lastBlock, mem_log, thread_temp,
                 lastFlag, shared_sd, sd_log>>

\* what the threads of a grid hold when only the synchronization is looked
\* at: the same value in every thread
UniformLocals(R, nB, nT) ==
  {[b \in 0..(nB - 1) |-> [t \in 0..(nT - 1) |-> v]] :
     v \in Vals \cup {identity(R)}}

\* block blockId of a grid of several blocks enters grid_reduce; the blocks
\* of arrived have stored their aggregate and incremented the counter
InitWarps ==
  /\ variant = "warps"
  /\ reducer \in Reducers
  /\ numBlocks \in 2..MaxBlocks
  /\ numThreads \in 1..(MaxBlockWarps * WARP_SIZE)
  /\ junk \in JunkVals
  /\ value \in UniformLocals(reducer, numBlocks, numThreads)
  /\ pc = [b \in Blocks |-> "start"]
  /\ \E arrived \in SUBSET (Blocks \ {blockId}) :
       /\ device_mem = [i \in Blocks |->
                          IF i \in arrived THEN block_aggregate(i) ELSE junk]
       /\ device_count = Cardinality(arrived)
  /\ old_count = [b \in Blocks |-> 0]
  /\ lastBlock = [b \in Blocks |-> FALSE]
  /\ val_ptr = junk
  /\ writers = <<>>
  /\ mem_log = <<>>
  /\ index = <<>> /\ contrib = {} /\ seed = <<>> /\ deviceLoc_mem = <<>>
  /\ root_value = 0 /\ root_index = 0 /\ host_pc = "kernel"
  /\ stream_list = <<>> /\ pinned = <<>> /\ launches = <<>>
  /\ s_it = 0 /\ n_it = <<0, 0>> /\ synced = <<>> /\ folded = <<>>
  /\ read_log = <<>> /\ expected = 0 /\ freed = {}
  /\ pool_log = <<>>
  /\ m_mutex = 0 /\ callers = <<>> /\ handles = <<>> /\ scratch = <<>>
  /\ wpc = [w \in Warps |-> [at |-> "reduce", call |-> 1]]
  /\ thread_temp = value[blockId]
  /\ lastFlag = [t \in Threads |-> FALSE]
  /\ live = Threads
  /\ shared_sd = [w \in 0..(MAX_WARPS - 1) |-> junk]
  /\ sd_log = <<>>

NextWarps ==
  \/ \E w \in 0..(MaxBlockWarps - 1) :
       \/ warp_reduce(w)
       \/ publish(w)
       \/ read_per_warp(w)
       \/ grid_reduce_thread0(w)
       \/ accumulate_or_return(w)
       \/ grid_reduce_return(w)
  \/ \E c \in {1, 2} : syncthreads_first(c) \/ syncthreads_second(c)
  \/ syncthreads_or_opens

SpecWarps == InitWarps /\ [][NextWarps]_vars

\* the warp has come back from __syncthreads_or
PastOr(w) == wpc[w].at \in {"branch", "done"} \/ wpc[w].call = 2

AtBarrier(w) == wpc[w].at \in {"syncA", "syncB", "syncOr"}

\* how far along grid_reduce a thread stands
Progress(p) ==
  IF p.at = "done" THEN 15
  ELSE (IF p.call = 2 THEN 8 ELSE 0) +
       (CASE p.at = "reduce" -> 1 [] p.at = "publish" -> 2
          [] p.at = "syncA" -> 3 [] p.at = "read" -> 4
          [] p.at = "syncB" -> 5 [] p.at = "after" -> 6
          [] p.at = "syncOr" -> 7 [] p.at = "branch" -> 8)

\* C22: in the tree variant all threads of a block obtain the same lastBlock
\* from the block-wide OR, so either every thread of the block or none enters
\* the accumulation phase, and the barriers inside the second block_reduce
\* call are reached by all threads of the block: no thread stands at a
\* barrier that another thread of its block has left behind for good.
C22_SameLastBlockNoDivergence ==
  variant = "warps" =>
    /\ \A w \in Warps :
         PastOr(w) => \A t, u \in Threads : lastFlag[t] = lastFlag[u]
    /\ \A w \in Warps :
         (wpc[w].call = 2 /\ wpc[w].at # "done") =>
           /\ Lanes(w) \subseteq live
           /\ \A u \in Warps : wpc[u].call = 2 \/ wpc[u].at = "branch"
    /\ \A w \in Warps :
         AtBarrier(w) =>
           /\ live = Threads
           /\ \A u \in Warps : Progress(wpc[u]) <= Progress(wpc[w])

\* the last block with two warps: one warp waits at the first barrier of
\* the second block_reduce while the other has yet to start that call
C22_Witness ==
  /\ variant = "warps" /\ numThreads > WARP_SIZE
  /\ \E w, u \in Warps :
       /\ at(w, "syncA", 2) /\ at(u, "branch", 1)
       /\ \A t \in Threads : lastFlag[t]

\* the k-th access to sd[] is warp 0's read of call c
IsRead(k, c) == sd_log[k] = <<"read", c, 0>>

\* the warp is back from call c of block_reduce
Returned_from(w, c) ==
  \/ at(w, "after", c)
  \/ c = 1 /\ (wpc[w].at \in {"syncOr", "branch", "done"} \/ wpc[w].call = 2)
  \/ c = 2 /\ wpc[w] = [at |-> "done", call |-> 2]

\* C23: when block_reduce is called twice in a row by the same block (the
\* last block of the tree variant), no warp overwrites a shared per-warp entry
\* for the second call before warp 0 has finished reading the entries of the
\* first call; the trailing barrier separates the two uses of the shared
\* array: no thread is back from a call of block_reduce that used sd[] before
\* warp 0 has read the entries of that call.
C23_SharedArrayReuse ==
  (variant = "warps" /\ numThreads > WARP_SIZE) =>
    /\ \A j \in 1..Len(sd_log) :
         sd_log[j][1] = "write" /\ sd_log[j][2] = 2 =>
           \E i \in 1..(j - 1) : IsRead(i, 1)
    /\ \A i, j \in 1..Len(sd_log) :
         (IsRead(j, 1) /\ sd_log[i][1] = "write" /\ sd_log[i][2] = 2) => j < i
    /\ \A w \in Warps, c \in {1, 2} :
         Returned_from(w, c) => \E k \in 1..Len(sd_log) : IsRead(k, c)

\* the last block has gone through both calls: a warp other than warp 0 has
\* published its value of the second call in the entry warp 0 read in the
\* first
C23_Witness ==
  /\ variant = "warps" /\ numThreads > WARP_SIZE
  /\ Len(writers) = 1
  /\ \E i, j \in 1..Len(sd_log) :
       /\ i < j /\ IsRead(i, 1)
       /\ sd_log[j][1] = "write" /\ sd_log[j][2] = 2 /\ sd_log[j][3] # 0

\* C24: over any sequence of launches and reads of one handle, each completed
\* launch's aggregate is folded into the root's value exactly once: a read
\* after further launches folds only the slots created since the previous
\* read, and never folds a slot of an earlier read again.
C24_FoldedExactlyOnce ==
  variant = "host" =>
     /\ \A l \in 1..Len(launches) : launches[l].folds <= 1
     /\ \A k \in 1..Len(folded) :
          host_pc = "fold" => folded[k] \notin freed
     /\ (host_pc = "fold" /\ StreamNodeIterator_eq(n_it, end)) =>
          /\ {folded[k] : k \in 1..Len(folded)}
               = {launches[l].node : l \in 1..Len(launches)} \ freed
          /\ \A l \in 1..Len(launches) : launches[l].folds = 1
          /\ root_value = expected
     /\ (host_pc = "idle" /\ stream_list = <<>>) =>
          /\ \A l \in 1..Len(launches) : launches[l].folds = 1
          /\ root_value = expected

\* a launch, a read, a further launch and a second read, which has folded
\* the slot of the second launch only
C24_Witness ==
  /\ variant = "host" /\ host_pc = "fold" /\ StreamNodeIterator_eq(n_it, end)
  /\ Len(launches) = 2 /\ Cardinality(freed) = 1 /\ Len(folded) = 1
  /\ launches[1].result # identity(reducer)
  /\ launches[2].result # identity(reducer)

\* the blocks of a launch of the tree variant that have executed atomicInc
Arrived == {b \in Blocks : pc[b] \in {"counted", "done"}}

\* C25: in the tree variant device_count stays within 0..numBlocks-1
\* throughout a launch, the k-th block to arrive observes the pre-increment
\* value k-1, and after all numBlocks blocks have arrived device_count is 0
\* again.
C25_TreeCounterModulo ==
  (variant = "tree" /\ numBlocks > 1) =>
    /\ device_count \in 0..(numBlocks - 1)
    /\ {old_count[b] : b \in Arrived} = 0..(Cardinality(Arrived) - 1)
    /\ \A b, c \in Arrived : old_count[b] = old_count[c] => b = c
    /\ device_count = Cardinality(Arrived) % numBlocks
    /\ Arrived = Blocks => device_count = 0

\* every block of the largest grid has arrived, the block with the lowest id
\* last, and the counter is back at 0
C25_Witness ==
  /\ variant = "tree" /\ numBlocks = MaxBlocks /\ Arrived = Blocks
  /\ old_count[0] = numBlocks - 1 /\ device_count = 0

\* ------------------------------ device: the copies one thread makes

\* a faulty variant: the copy takes over the value of its source
Reduce_Data_copy_value_kept(R, other_value) == other_value

\* Reduce_Data(const Reduce_Data &other): value{Reducer::identity}
Reduce_Data_copy_value(R, other_value) == identity(R)

\* Reduce(const Reduce &other) on the device: parent is the source itself and
\* val is copied; a copy whose parent has no parent (a copy of the launcher's
\* object) runs setupForDevice, which in the tree variant changes nothing
Reduce_copy_device(o) ==
  /\ variant = "device" /\ o \in 1..Len(handles) /\ handles[o].alive
  /\ Len(handles) <= MaxCopies
  /\ handles' = Append(handles,
       [parent |-> o, alive |-> TRUE, given |-> identity(reducer), calls |-> 0,
        value |-> Reduce_Data_copy_value(reducer, handles[o].value)])
  /\ UNCHANGED <<launchVars, warpVars, kernelVars, tallyVars, threadVars,
                 root_value, root_index, host_pc, scratch>>

\* the calls of reduce() the thread has made on the copies from h on
RECURSIVE ReduceCalls(_)
ReduceCalls(h) ==
  IF h > Len(handles) THEN 0 ELSE handles[h].calls + ReduceCalls(h + 1)

\* reduce(rhsVal) on a copy the thread made: Reducer{}(val.value, rhsVal)
Reduce_reduce(h, v) ==
  /\ variant = "device" /\ h \in 2..Len(handles) /\ handles[h].alive
  /\ ReduceCalls(1) < MaxReduceCalls
  /\ handles' = [handles EXCEPT
                   ![h].value = Reducer(reducer, @, v),
                   ![h].given = Reducer(reducer, @, v),
                   ![h].calls = @ + 1]
  /\ UNCHANGED <<launchVars, warpVars, kernelVars, tallyVars, threadVars,
                 root_value, root_index, host_pc, scratch>>

\* ~Reduce() on the device of a copy none of whose copies is left: a copy of
\* the launcher's object runs val.destroy(), which hands val.value to the grid
\* reduction; any other copy runs parent->reduce(val.value)
Reduce_destroy_device(h) ==
  /\ variant = "device" /\ h \in 2..Len(handles) /\ handles[h].alive
  /\ \A c \in 1..Len(handles) : handles[c].parent = h => ~handles[c].alive
  /\ IF handles[handles[h].parent].parent = 0
     THEN /\ scratch' = Append(scratch, [by |-> h, temp |-> handles[h].value])
          /\ handles' = [handles EXCEPT ![h].alive = FALSE]
     ELSE /\ handles' = [handles EXCEPT
                           ![h].alive = FALSE,
                           ![handles[h].parent].value =
                              Reducer(reducer, @, handles[h].value)]
          /\ UNCHANGED scratch
  /\ UNCHANGED <<launchVars, warpVars, kernelVars, tallyVars, threadVars,
                 root_value, root_index, host_pc>>

\* one thread of a kernel: the launcher's object, whose parent is nullptr,
\* is all there is
InitDevice ==
  /\ variant = "device"
  /\ reducer \in Reducers
  /\ numBlocks = 0 /\ numThreads = 0
  /\ junk \in JunkVals
  /\ seed = <<>> /\ value = <<>> /\ index = <<>> /\ contrib = {}
  /\ pc = <<>> /\ device_mem = <<>> /\ deviceLoc_mem = <<>>
  /\ device_count = 0 /\ old_count = <<>> /\ lastBlock = <<>>
  /\ val_ptr = junk /\ writers = <<>> /\ mem_log = <<>>
  /\ root_value = 0 /\ root_index = 0 /\ host_pc = "kernel"
  /\ stream_list = <<>> /\ pinned = <<>> /\ launches = <<>>
  /\ s_it = 0 /\ n_it = <<0, 0>> /\ synced = <<>> /\ folded = <<>>
  /\ read_log = <<>> /\ expected = 0 /\ freed = {}
  /\ pool_log = <<>>
  /\ m_mutex = 0 /\ callers = <<>>
  /\ handles = <<[parent |-> 0, alive |-> TRUE, given |-> identity(reducer),
                  calls |-> 0, value |-> identity(reducer)]>>
  /\ scratch = <<>>
  /\ NoWarps

NextDevice ==
  \/ \E o \in 1..MaxCopies : Reduce_copy_device(o)
  \/ \E h \in 2..(MaxCopies + 1), v \in Vals : Reduce_reduce(h, v)
  \/ \E h \in 2..(MaxCopies + 1) : Reduce_destroy_device(h)

SpecDevice == InitDevice /\ [][NextDevice]_vars

\* copy d was made from copy h, directly or through copies of copies
RECURSIVE MadeFrom(_, _)
MadeFrom(d, h) ==
  d = h \/ (d > h /\ MadeFrom(handles[d].parent, h))

\* copy d and every copy between d and h were destroyed: what d was given
\* has been combined into h
RECURSIVE MergedInto(_, _)
MergedInto(d, h) ==
  d = h \/ (d > h /\ ~handles[d].alive /\ MergedInto(handles[d].parent, h))

\* the combine of what reduce() was given on the copies of S
RECURSIVE GivenTo(_, _)
GivenTo(S, acc) ==
  IF S = {} THEN acc
  ELSE LET d == CHOOSE x \in S : TRUE
       IN  GivenTo(S \ {d}, Reducer(reducer, acc, handles[d].given))

\* C26: on the device a copy of a device copy starts with identity as its
\* local value and on destruction combines its local into its parent's local;
\* only a copy taken directly from the launcher runs the grid reduction, so
\* the values combined through nested copies reach the grid reduction exactly
\* once, nested copies being destroyed before the copy they were made from.
C26_NestedCopiesReachGridOnce ==
  variant = "device" =>
    /\ \A h \in 2..Len(handles) :
         handles[h].alive =>
           handles[h].value =
             GivenTo({d \in h..Len(handles) : MergedInto(d, h)},
                     identity(reducer))
    /\ \A k \in 1..Len(scratch) :
         /\ handles[scratch[k].by].parent = 1
         /\ scratch[k].temp =
              GivenTo({d \in 2..Len(handles) : MadeFrom(d, scratch[k].by)},
                      identity(reducer))
    /\ \A h \in 2..Len(handles) :
         Cardinality({k \in 1..Len(scratch) : scratch[k].by = h})
           = IF handles[h].parent = 1 /\ ~handles[h].alive THEN 1 ELSE 0

\* a copy of a copy of the thread's copy was given a value, and so was the
\* thread's copy; all were destroyed and the grid reduction got both values
C26_Witness ==
  /\ variant = "device" /\ Len(handles) = 4 /\ Len(scratch) = 1
  /\ handles[2].parent = 1 /\ handles[3].parent = 2 /\ handles[4].parent = 3
  /\ handles[4].given # identity(reducer)
  /\ handles[2].given # identity(reducer)
  /\ scratch[1].temp = Reducer(reducer, handles[2].given, handles[4].given)

\* ------------------- host threads destroying copies that have a parent

\* ~Reduce() on the host of a copy whose parent is the root, by host thread
\* h: the lock guard on the tally's mutex, where it is compiled
Reduce_destroy_guard(h) ==
  /\ variant = "fold" /\ callers[h].pc = "alive"
  /\ lock_guard(m_mutex)
  /\ m_mutex' = locked_by(m_mutex, h)
  /\ callers' = [callers EXCEPT ![h].pc = "load"]
  /\ UNCHANGED <<launchVars, warpVars, kernelVars, tallyVars, copyVars,
                 root_value, root_index, host_pc>>

\* parent->reduce(val.value), Reducer{}(ptr->val.value, rhsVal): the parent's
\* value is read
Reduce_reduce_load(h) ==
  /\ variant = "fold" /\ callers[h].pc = "load"
  /\ callers' = [callers EXCEPT ![h].pc = "store", ![h].loaded = root_value]
  /\ UNCHANGED <<launchVars, warpVars, kernelVars, tallyVars, copyVars,
                 root_value, root_index, host_pc, m_mutex>>

\* the combined value is written back to the parent's value; the destructor
\* returns, which destroys the lock guard
Reduce_reduce_store(h) ==
  /\ variant = "fold" /\ callers[h].pc = "store"
  /\ root_value' = Reducer(reducer, callers[h].loaded, callers[h].local)
  /\ m_mutex' = unlocked(m_mutex)
  /\ callers' = [callers EXCEPT ![h].pc = "gone"]
  /\ UNCHANGED <<launchVars, warpVars, kernelVars, tallyVars, copyVars,
                 root_index, host_pc>>

\* a root and, in every host thread, a copy of it that did not set up a
\* launch and whose value is what the thread combined into it
InitFold ==
  /\ variant = "fold"
  /\ reducer \in Reducers
  /\ numBlocks = 0 /\ numThreads = 0
  /\ junk \in JunkVals
  /\ seed \in Vals \cup {identity(reducer)}
  /\ value = <<>> /\ index = <<>> /\ contrib = {}
  /\ pc = <<>> /\ device_mem = <<>> /\ deviceLoc_mem = <<>>
  /\ device_count = 0 /\ old_count = <<>> /\ lastBlock = <<>>
  /\ val_ptr = junk /\ writers = <<>> /\ mem_log = <<>>
  /\ root_value = seed /\ root_index = 0 /\ host_pc = "idle"
  /\ stream_list = <<>> /\ pinned = <<>> /\ launches = <<>>
  /\ s_it = 0 /\ n_it = <<0, 0>> /\ synced = <<>> /\ folded = <<>>
  /\ read_log = <<>> /\ expected = seed /\ freed = {}
  /\ pool_log = <<>>
  /\ m_mutex \in {0, -1}
  /\ callers \in [HostThreads ->
                    {[pc |-> "alive", local |-> v, loaded |-> 0] :
                       v \in Vals \cup {identity(reducer)}}]
  /\ handles = <<>> /\ scratch = <<>>
  /\ NoWarps

NextFold ==
  \E h \in HostThreads :
    \/ Reduce_destroy_guard(h)
    \/ Reduce_reduce_load(h)
    \/ Reduce_reduce_store(h)

SpecFold == InitFold /\ [][NextFold]_vars

\* the combine of acc with the values of the copies of the threads from h on
\* that were destroyed
RECURSIVE FoldedLocals(_, _)
FoldedLocals(h, acc) ==
  IF h > MaxHostThreads THEN acc
  ELSE FoldedLocals(h + 1, IF callers[h].pc = "gone"
                           THEN Reducer(reducer, acc, callers[h].local)
                           ELSE acc)

\* C27: a host-side copy that did not become a launcher combines its local
\* into the root's value exactly once when it is destroyed, and concurrent
\* destructions of such copies on several host threads are serialized by the
\* tally mutex so that no contribution to the root's value is lost.
\* Violated in a build without OpenMP, where no lock guard is compiled.
C27_HostCopiesFoldOnce ==
  variant = "fold" =>
    /\ Cardinality({h \in HostThreads : callers[h].pc \in {"load", "store"}}) <= 1
    /\ (\A h \in HostThreads : callers[h].pc \in {"alive", "gone"}) =>
          root_value = FoldedLocals(1, seed)

\* C27 in the build with OpenMP, where the lock guard is compiled
C27_WithMutex == m_mutex # -1 => C27_HostCopiesFoldOnce

\* ------------------- tree: the launcher's destructor and its kernel

\* Reduce_Data::teardownForDevice in ~Reduce of the launcher on the host:
\* device and device_count are freed to their pools.  The destructor waits
\* for nothing; the launcher lives on the host inside the launch, which
\* queues the kernel on a stream and returns (the host waits for a stream
\* only in deviceToHost)
Reduce_Data_teardownForDevice ==
  /\ variant = "tree" /\ host_pc = "kernel"
  /\ scratch' = <<[device |-> device_mem, device_count |-> device_count]>>
  /\ host_pc' = "teardown"
  /\ UNCHANGED <<launchVars, warpVars, kernelVars, root_value, root_index,
                 tallyVars, threadVars, handles>>

NextAsync == NextTree \/ Reduce_Data_teardownForDevice

SpecAsync == InitTree /\ [][NextAsync]_vars

\* thread 0 of block b has yet to read or write device_mem or device_count
AccessAhead(b) ==
  /\ numBlocks > 1
  /\ \/ pc[b] \in {"start", "stored"}
     \/ pc[b] = "counted" /\ lastBlock[b]

\* C28: the launcher's host destructor does not return the device scratch or
\* the counter to their pools while any block of its kernel can still read or
\* write them: every device access to device_mem and device_count of a launch
\* precedes teardownForDevice for that launch.
C28_TeardownAfterDeviceAccesses ==
  (variant = "tree" /\ host_pc = "teardown") =>
     \A b \in Blocks : ~AccessAhead(b)

\* the number of slots of the stream nodes from position k on
RECURSIVE SlotCount(_, _)
SlotCount(list, k) ==
  IF k > Len(list) THEN 0
  ELSE Len(list[k].node_list) + SlotCount(list, k + 1)

\* for (n = it; n != end(); ++n): the nodes visited, in order; more than
\* steps turns of the loop are cut short with a node that does not exist
RECURSIVE Visited(_, _, _)
Visited(list, it, steps) ==
  IF StreamNodeIterator_eq(it, end) THEN <<>>
  ELSE IF steps = 0 THEN <<0>>
  ELSE <<StreamNodeIterator_node(list, it)>>
       \o Visited(list, StreamNodeIterator_next(list, it), steps - 1)

\* C29: in every reachable tally state each stream node has a non-empty slot
\* list, and iterating begin()..end() visits every slot of every stream node
\* exactly once and terminates.
C29_IterationVisitsEverySlotOnce ==
  variant = "host" =>
    /\ \A k \in 1..Len(stream_list) : stream_list[k].node_list # <<>>
    /\ LET n == SlotCount(stream_list, 1)
           v == Visited(stream_list, begin(stream_list), n + 1)
       IN  /\ Len(v) = n
           /\ {v[i] : i \in 1..Len(v)} = TallyNodes(stream_list)
           /\ \A i, j \in 1..Len(v) : v[i] = v[j] => i = j
           /\ host_pc = "fold" =>
                /\ Len(folded) <= n
                /\ \A i \in 1..Len(folded) : folded[i] = v[i]
                /\ StreamNodeIterator_eq(n_it, end) => folded = v

\* a read has gone through a tally of two stream nodes
C29_Witness ==
  /\ variant = "host" /\ host_pc = "fold" /\ StreamNodeIterator_eq(n_it, end)
  /\ Len(stream_list) = 2 /\ Len(folded) = 2

\* C30: when setupReducers() returns false, a host-side copy allocates no
\* device scratch, no counter and no pinned slot, leaves the tally unchanged,
\* and keeps its parent pointing at the root (it does not become a launcher).
C30_NoLaunchPendingNoSetup ==
  /\ [](variant = "copy" =>
          /\ \A h \in 2..Len(handles) :
               ~handles[h].pending =>
                 /\ ~handles[h].act /\ ~handles[h].own_device_ptr
                 /\ \A k \in 1..Len(scratch) : scratch[k].by # h
                 /\ handles[h].parent = handles[handles[h].from].parent
                 /\ handles[handles[h].from].parent = 1 => handles[h].parent = 1
          /\ Len(scratch) = Cardinality(Launchers)
          /\ Len(pinned) = Cardinality(Launchers))
  /\ [][(variant = "copy" /\ Len(handles') > Len(handles)
           /\ ~handles'[Len(handles')].pending) =>
          UNCHANGED <<scratch, stream_list, pinned>>]_vars

\* with one launch set up and its launcher alive, the root is copied while
\* no launch is pending
C30_Witness ==
  /\ variant = "copy" /\ Len(handles) = 3
  /\ handles[2].act /\ handles[2].alive
  /\ handles[3].from = 1 /\ ~handles[3].pending /\ handles[3].parent = 1
  /\ Len(scratch) = 1 /\ Len(pinned) = 1

\* ------------------------------------------- host: what free_list frees

\* how often the first k calls of log are call c
Calls(log, c, k) == Cardinality({i \in 1..k : log[i] = c})

\* what was allocated by the tally and not freed since, Nodes or StreamNodes
Held(log, what) ==
  {log[i].id : i \in {j \in 1..Len(log) :
      /\ log[j].what = what
      /\ Calls(log, pool_call("malloc", what, log[j].id), Len(log))
           > Calls(log, pool_call("free", what, log[j].id), Len(log))}}

\* C31: free_list returns every slot to the pinned pool and frees every
\* stream node exactly once, leaving the tally with no stream nodes and no
\* slots; running it again on the emptied tally (the read's cleanup followed
\* by the destructor of the root's tally) frees nothing a second time.
C31_FreeListFreesOnce ==
  variant = "host" =>
    /\ \A k \in 1..Len(pool_log) :
         pool_log[k].op = "free" =>
           Calls(pool_log, [pool_log[k] EXCEPT !.op = "malloc"], k - 1)
             = Calls(pool_log, pool_log[k], k - 1) + 1
    /\ Held(pool_log, "Node") = TallyNodes(stream_list)
    /\ Held(pool_log, "StreamNode")
         = {stream_list[k].stream : k \in 1..Len(stream_list)}
    /\ (host_pc = "destroyed" \/ (host_pc = "idle" /\ read_log # <<>>)) =>
         /\ stream_list = <<>>
         /\ Held(pool_log, "Node") = {} /\ Held(pool_log, "StreamNode") = {}

\* the root is destroyed right after a read whose cleanup freed the slots
\* of two streams
C31_Witness ==
  /\ variant = "host" /\ host_pc = "destroyed" /\ read_log # <<>>
  /\ Len(read_log[Len(read_log)].folded) = 2
  /\ Len(read_log[Len(read_log)].synced) = 2
  /\ Len(pool_log) = 8 /\ pool_log[8].op = "free" /\ pool_log[4].op = "malloc"

\* ------------------------------------- what changes the root's value

\* Reduce::reduce(rhsVal) called on the root itself by the host, while the
\* result stays within T
Reduce_reduce_root(v) ==
  /\ variant = "fold"
  /\ Reducer(reducer, root_value, v) \in T_MIN..T_MAX
  /\ root_value' = Reducer(reducer, root_value, v)
  /\ UNCHANGED <<launchVars, warpVars, kernelVars, tallyVars, threadVars,
                 copyVars, root_index, host_pc>>

\* a root in any of its situations: with launches and reads on the host, with
\* one launch looked into block by block (tree or atomic grid reduction) or
\* copy by copy on the device, with host copies made and destroyed
InitRoot ==
  InitHost \/ InitTree \/ InitAtomic \/ InitDevice \/ InitCopy \/ InitFold

NextRoot ==
  \/ NextDestroy
  \/ NextAsync
  \/ NextAtomic
  \/ NextDevice
  \/ NextCopy
  \/ NextFold
  \/ \E v \in Vals : Reduce_reduce_root(v)

SpecRoot == InitRoot /\ [][NextRoot]_vars

\* the step is a turn of the fold loop of a read of the root
ReadFolds ==
  /\ variant = "host" /\ host_pc = "fold" /\ ~StreamNodeIterator_eq(n_it, end)
  /\ folded' = Append(folded, StreamNodeIterator_node(stream_list, n_it))
  /\ root_value' = Reducer(reducer, root_value,
                           pinned[StreamNodeIterator_node(stream_list, n_it)])

\* the step is the end of the destructor of a host copy whose parent is the
\* root: parent->reduce(val.value) has written the root's value
HostCopyFolds ==
  /\ variant = "fold"
  /\ \E h \in HostThreads :
       /\ callers[h].pc = "store" /\ callers'[h].pc = "gone"
       /\ root_value' = Reducer(reducer, callers[h].loaded, callers[h].local)

\* the step is a call of reduce on the root itself, on the host
RootReduces ==
  /\ variant = "fold" /\ callers' = callers
  /\ \E v \in Vals : root_value' = Reducer(reducer, root_value, v)

\* C32 as stated: the root's value is not modified by any kernel-side
\* combine, device destructor, grid reduction, or launcher setup or teardown;
\* it changes only when the host read folds the tally into it.
\* Violated: the destructor of a host copy whose parent is the root, and a
\* call of reduce on the root, change it as well.
C32_RootChangesOnlyOnRead ==
  [][root_value' # root_value => ReadFolds]_vars

\* C32, corrected: the root's value is not modified by any kernel-side
\* combine, device destructor, grid reduction, or launcher setup or teardown;
\* it changes only on the host: when a read folds the tally into it, when a
\* host copy whose parent is the root is destroyed, or when reduce is called
\* on the root itself.
C32_RootChangesOnlyOnHost ==
  [][root_value' # root_value => (ReadFolds \/ HostCopyFolds \/ RootReduces)]_vars

\* two launches were set up and torn down and their kernels have run to the
\* end, the read is about to fold their slots: the root still holds its seed
C32_Witness ==
  /\ variant = "host" /\ host_pc = "fold" /\ folded = <<>>
  /\ Len(launches) = 2
  /\ \A l \in 1..2 : launches[l].done /\ launches[l].folds = 0
                     /\ pinned[launches[l].node] = launches[l].result
  /\ expected # seed /\ root_value = seed

====
